---- MODULE Spec2Model ----
(***************************************************************************)
(* Crypto-portfolio-tracker: the discovery-and-aggregation pipeline.       *)
(*                                                                         *)
(* The module holds one state machine per component of the repository:     *)
(*   Spec        PositionAggregator.get_all_positions (scan, fan-out,      *)
(*               collection, enrichment, summary)                          *)
(*   SpecEnrich  PositionAggregator._enrich_positions_with_pricing on      *)
(*               position lists drawn from bounded sets                    *)
(*   SpecPool    get_all_positions with every chain active, so that the    *)
(*               worker pool's cap binds                                   *)
(*   SpecRetry   with_retry, RetryManager.execute_with_retry and           *)
(*               ApeRPCProvider.make_request                               *)
(*   SpecCache   RPCCache under a clock                                    *)
(*   SpecBatch   MulticallBatcher                                          *)
(*   SpecScan    ChainScanner.discover_protocols, probe by probe, with     *)
(*               _query_logs_with_chunking                                 *)
(*   SpecFanOut  get_all_positions with the chain tasks run one handler    *)
(*               at a time (_get_chain_positions), interleaved             *)
(*   SpecChunk, SpecChunkFair, SpecChunkAnswered                           *)
(*               ChainScanner._query_logs_with_chunking, request by        *)
(*               request; with fairness; with every request answered       *)
(*   SpecRegistry  ProtocolRegistry                                        *)
(*   SpecPad     ChainScanner._pad_address                                 *)
(*   SpecChunkLoose  _query_logs_with_chunking with a provider whose       *)
(*               suggested range need not narrow the request               *)
(*   SpecDetect  ChainScanner.detect_active_chains, probe by probe         *)
(*   SpecCleanup RPCCache with set, get, cleanup_expired and the clock     *)
(*   SpecFind    ProtocolRegistry.find_handler_for_contract                *)
(*   SpecProto   PositionAggregator.get_positions_for_protocol             *)
(* Decimal amounts are integers; an Optional value is <<>> (None) or <<v>>.*)
(***************************************************************************)
EXTENDS Integers, Sequences, FiniteSets, TLC

(* ------------------------------------------------------------------ *)
(* Bounds of the model                                                  *)
(* ------------------------------------------------------------------ *)
\* number of configured chains (data/loader.py get_all_supported_chains) in
\* the scenarios of Spec
NumChains == 3

\* number of configured chains in the scenarios of SpecPool, where every
\* chain is active and the pool's cap binds
NumPoolChains == 5

\* ThreadPoolExecutor(max_workers=min(len(active_chains), 4))
PoolCap == 4

\* every chain of some scenario
AllChains == 1..(IF NumChains > NumPoolChains THEN NumChains ELSE NumPoolChains)

(* ------------------------------------------------------------------ *)
(* Optional values and Python truthiness                                *)
(* ------------------------------------------------------------------ *)
None == <<>>
Some(v) == <<v>>
IsSome(o) == o # <<>>
Val(o) == o[1]
\* `x and ...` / `x or Decimal(0)` on an Optional[Decimal]: None and 0 are falsy
Truthy(o) == IsSome(o) /\ Val(o) # 0

Min(a, b) == IF a <= b THEN a ELSE b

RECURSIVE SeqSum(_)
SeqSum(s) == IF s = <<>> THEN 0 ELSE Head(s) + SeqSum(Tail(s))

(* ------------------------------------------------------------------ *)
(* State                                                                *)
(* ------------------------------------------------------------------ *)
VARIABLES
    \* ---- ProtocolRegistry._handlers (insertion-ordered dict, as a sequence)
    handlers,
    \* ---- get_all_supported_chains(): the configured chains are 1..num_chains
    num_chains,
    \* ---- PositionAggregator.get_all_positions
    pc,               \* position of the calling thread in get_all_positions
    idx,              \* loop index of the loop the caller is in
    active_chains,    \* detect_active_chains: chains with detected activity
    chain_activities, \* scan_all_chains: results, one ChainActivity per chain
    probes,           \* per chain, the provider's answers to the activity probe
    max_workers,      \* size of the worker pool
    submitted,        \* chains whose task was submitted, in submission order
    future,           \* per chain, the state of its future
    future_result,    \* per chain, the position list its task returned
    collected,        \* futures the collecting loop has consumed
    all_positions,    \* the caller's merged list
    prices,           \* the price map get_prices returned
    summary,          \* the PortfolioSummary returned (None before)
    nDiscover,        \* calls of discover_protocols
    nGetPositions,    \* calls of handler.get_positions
    nGetPrices,       \* calls of pricing_service.get_prices
    \* ---- the retry wrappers (rpc/retry.py, rpc/provider.py)
    retry_kind,       \* which wrapper runs: with_retry, RetryManager, make_request
    config,           \* its RetryConfig
    connected,        \* ApeRPCProvider._provider is set
    retry_pc,         \* "call", "sleep", "returned" or "raised"
    attempt,          \* the loop variable of the retry loop
    call_log,         \* outcome of every invocation of the wrapped call
    last_exception,   \* the wrapper's last_exception
    retry_outcome,    \* the value returned or the error raised to the caller
    sleeps,           \* the delays slept, in order
    rotations,        \* calls of provider.rotate_endpoint (RetryManager)
    \* ---- RPCCache (rpc/cache.py)
    default_ttl,      \* RPCCache.default_ttl
    cache,            \* RPCCache._cache: key -> CacheEntry
    now,              \* time.time()
    last_set,         \* per key, the arguments and time of the latest set
    last_get,         \* the latest get: key, result, time, and last_set[key]
    last_cleanup,     \* what the latest cleanup_expired returned
    \* ---- MulticallBatcher (rpc/multicall.py)
    batch_config,     \* MulticallBatcher.retry_config
    batch_calls,      \* MulticallBatcher._calls
    last_execute,     \* the latest execute since the last add_call: the
                      \* queue it found, the provider's answers, its outcome
    \* ---- ChainScanner.discover_protocols (core/scanner.py)
    scan_pc,          \* "idle", "loop" (in the loop over protocols), "returned"
    scan_chain,       \* the chain argument
    user_is_str,      \* whether the wallet argument is a str
    discovery_events, \* ProtocolRegistry.get_discovery_events(chain), in order
    scan_i,           \* the protocol the loop is at
    scan_j,           \* the event signature _has_protocol_activity is at
    scan_k,           \* the topic layout it is at: wallet in indexed topic 1..3
    discovered_protocols,
    hits,             \* the probes of this call in which an eth_getLogs request
                      \* returned a non-empty list
    \* ---- ChainScanner._query_logs_with_chunking, call by call
    chunk_world,      \* the blocks holding a matching log (one log each)
    chunk_query,      \* the arguments of the outermost call
    chunk_stack,      \* the frames of the recursion, innermost last
    chunk_ret,        \* what the call that just ended returned or raised
    chunk_requests,   \* the eth_getLogs requests made so far
    \* ---- ProtocolRegistry (core/registry.py); its _handlers is `handlers`
    reg_last,         \* per name, the class of the latest register that did
                      \* not raise since the last clear
    reg_op,           \* the latest call: its argument, whether it raised, and
                      \* _handlers before it
    \* ---- ChainScanner._pad_address (core/scanner.py)
    pad_in,           \* the address passed to _pad_address
    pad_out,          \* what it returned
    pad_again,        \* what it returned for that result
    \* ---- the chain tasks of get_all_positions, one handler at a time
    \* ---- (PositionAggregator._get_chain_positions)
    task_positions,   \* per chain task: its local list `positions`
    task_next,        \* per chain task: index of the protocol the loop is at
    task_log,         \* per chain task: what happened in each round of the loop
    \* ---- the pricing service, as _enrich_positions_with_pricing calls it
    price_feed,       \* the prices the pricing service has when it is called
    price_request,    \* the (chain, address) pairs passed to get_prices
    \* ---- ChainScanner.detect_active_chains, probe by probe (core/scanner.py)
    det_log,          \* per chain probed so far: the response and the outcome
    det_active,       \* the local list `active_chains`
    \* find_handler_for_contract: the classes registered, in the order of the
    \* latest register of each name, and the latest lookup with its result
    reg_order,
    reg_found,
    \* get_positions_for_protocol: the latest call, with what it returned and
    \* the calls it made
    proto_call

aggVars == <<pc, idx, active_chains, chain_activities, probes, max_workers,
             submitted, future, future_result, collected, all_positions,
             prices, summary, nDiscover, nGetPositions, nGetPrices>>

retryVars == <<retry_kind, config, connected, retry_pc, attempt, call_log,
               last_exception, retry_outcome, sleeps, rotations>>

cacheVars == <<default_ttl, cache, now, last_set, last_get, last_cleanup>>

batchVars == <<batch_config, batch_calls, last_execute>>

scanVars == <<scan_pc, scan_chain, user_is_str, discovery_events, scan_i,
              scan_j, scan_k, discovered_protocols, hits>>

chunkVars == <<chunk_world, chunk_query, chunk_stack, chunk_ret,
               chunk_requests>>

regVars == <<reg_last, reg_op>>

padVars == <<pad_in, pad_out, pad_again>>

fanVars == <<task_positions, task_next, task_log>>

priceVars == <<price_feed, price_request>>

detVars == <<det_log, det_active>>

findVars == <<reg_order, reg_found>>

protoVars == <<proto_call>>

vars == <<handlers, num_chains, aggVars, retryVars, cacheVars, batchVars,
          scanVars, chunkVars,
          regVars,
          padVars,
          fanVars,
          priceVars,
          detVars,
          findVars,
          protoVars>>

\* what the steps of one component leave alone
nonAggVars == <<retryVars, cacheVars, batchVars, scanVars,
    chunkVars,
    regVars,
    padVars,
    fanVars,
    priceVars,
    detVars,
    findVars,
    protoVars>>
nonRetryVars == <<handlers, num_chains, aggVars, cacheVars, batchVars, scanVars,
    chunkVars,
    regVars,
    padVars,
    fanVars,
    priceVars,
    detVars,
    findVars,
    protoVars>>
nonCacheVars == <<handlers, num_chains, aggVars, retryVars, batchVars, scanVars,
    chunkVars,
    regVars,
    padVars,
    fanVars,
    priceVars,
    detVars,
    findVars,
    protoVars>>
nonBatchVars == <<handlers, num_chains, aggVars, retryVars, cacheVars, scanVars,
    chunkVars,
    regVars,
    padVars,
    fanVars,
    priceVars,
    detVars,
    findVars,
    protoVars>>
nonScanVars == <<handlers, num_chains, aggVars, retryVars, cacheVars, batchVars,
    chunkVars,
    regVars,
    padVars,
    fanVars,
    priceVars,
    detVars,
    findVars,
    protoVars>>
nonChunkVars == <<handlers, num_chains, aggVars, retryVars, cacheVars, batchVars,
    scanVars,
    regVars,
    padVars,
    fanVars,
    priceVars,
    detVars,
    findVars,
    protoVars>>
nonRegVars == <<num_chains, aggVars, retryVars, cacheVars, batchVars, scanVars,
    chunkVars, padVars,
    fanVars,
    priceVars,
    detVars,
    findVars,
    protoVars>>
nonPadVars == <<handlers, num_chains, aggVars, retryVars, cacheVars, batchVars, scanVars, chunkVars, regVars,
    fanVars,
    priceVars,
    detVars,
    findVars,
    protoVars>>
nonFanVars == <<handlers, num_chains, aggVars, retryVars, cacheVars, batchVars, scanVars, chunkVars, regVars, padVars,
    priceVars,
    detVars,
    findVars,
    protoVars>>
nonPriceVars == <<handlers, num_chains, aggVars, retryVars, cacheVars, batchVars, scanVars, chunkVars, regVars, padVars, fanVars,
    detVars,
    findVars,
    protoVars>>
nonDetVars == <<handlers, num_chains, aggVars, retryVars, cacheVars, batchVars, scanVars, chunkVars, regVars, padVars, fanVars, priceVars,
    findVars,
    protoVars>>

nonAggFanVars == <<retryVars, cacheVars, batchVars, scanVars, chunkVars,
                   regVars, padVars, priceVars, detVars,
    findVars,
    protoVars>>
nonAggPriceVars == <<retryVars, cacheVars, batchVars, scanVars, chunkVars,
                     regVars, padVars, fanVars, detVars,
    findVars,
    protoVars>>
nonFindVars == <<handlers, num_chains, aggVars, retryVars, cacheVars, batchVars, scanVars, chunkVars, regVars, padVars, fanVars, priceVars, detVars,
    protoVars>>
nonProtoVars == <<handlers, num_chains, aggVars, retryVars, cacheVars, batchVars, scanVars, chunkVars, regVars, padVars, fanVars, priceVars, detVars, findVars>>

Chains == 1..num_chains

(* ------------------------------------------------------------------ *)
(* Protocol handlers and the registry                                   *)
(* ------------------------------------------------------------------ *)
\* protocols/aave.py and protocols/lido.py: name, supported_chains,
\* discovery_events of two registered handlers; aave is deployed on
\* every configured chain, lido on the first one
DefaultHandlers ==
    << [name |-> "aave_v3", supported_chains |-> AllChains,
        discovery_events |-> <<"Supply">>],
       [name |-> "lido", supported_chains |-> {1},
        discovery_events |-> <<"Submitted", "TransferShares">>] >>

\* ProtocolRegistry.get_handler: the handler registered under the name, or None
get_handler(name) ==
    LET hit == {i \in 1..Len(handlers) : handlers[i].name = name}
    IN IF hit = {} THEN None ELSE Some(handlers[CHOOSE i \in hit : TRUE])

\* ProtocolRegistry.get_handlers_for_chain
get_handlers_for_chain(chain) ==
    SelectSeq(handlers, LAMBDA h : chain \in h.supported_chains)

\* what a handler's get_positions returns for the wallet on a chain
HandlerPositions(name, chain) ==
    IF name = "aave_v3"
    THEN << [protocol |-> name, chain |-> chain, token |-> "",
             balance |-> 3, underlying_token |-> None,
             underlying_balance |-> None, usd_value |-> Some(3),
             claimable_rewards |-> << [token |-> "rwd", amount |-> 1,
                                       usd_value |-> None] >>] >>
    ELSE << [protocol |-> name, chain |-> chain, token |-> "steth",
             balance |-> 2, underlying_token |-> Some("eth"),
             underlying_balance |-> Some(2), usd_value |-> None,
             claimable_rewards |-> <<>>] >>

\* what can happen when a handler is run: it returns its positions, its
\* get_positions raises, or its constructor raises
HandlerBehaviours == {"ok", "get_raises", "ctor_raises"}

(* ------------------------------------------------------------------ *)
(* ChainScanner, as get_all_positions uses it                           *)
(* ------------------------------------------------------------------ *)
\* the provider's answer to the Transfer-event probe of _has_chain_activity
\* ("malformed": a response len() cannot measure; SpecDetect has the others)
ProbeAnswers == {"logs", "empty", "error", "malformed"}

HasChainActivity_ErrorMeansActive(answer) == answer # "empty"

\* ChainScanner._has_chain_activity: len(logs) > 0, any exception is False
HasChainActivity(answer) == answer = "logs"

\* the most entries a response to the probe has
MaxLogs == 2

\* what rpc_provider.make_request may hand to _has_chain_activity: an error
\* after the retries, a list of logs, or something else than a list of logs:
\* a value len() cannot measure (None, a number) or one it can (an error
\* object, a string)
ProbeResponses ==
    { [kind |-> "error", sized |-> FALSE, len |-> 0] }
      \cup { [kind |-> "logs", sized |-> TRUE, len |-> n] : n \in 0..MaxLogs }
      \cup { [kind |-> "malformed", sized |-> FALSE, len |-> 0] }
      \cup { [kind |-> "malformed", sized |-> TRUE, len |-> n] : n \in 0..MaxLogs }

\* ChainScanner._has_chain_activity on a response: `len(logs) > 0` inside
\* `try`, `return False` for any exception (the provider's, or the TypeError
\* of len())
HasChainActivityOf(response) ==
    IF response.kind = "error" \/ ~response.sized
    THEN [raised |-> FALSE, value |-> FALSE]
    ELSE [raised |-> FALSE, value |-> response.len > 0]

\* detect_active_chains was not called
DetIdle ==
    /\ det_log = <<>>
    /\ det_active = <<>>

\* one round of `for chain in supported_chains` of detect_active_chains
DetectStep(chains) ==
    /\ Len(det_log) < chains
    /\ \E response \in ProbeResponses :
         LET r == HasChainActivityOf(response)
             chain == Len(det_log) + 1
         IN /\ det_log' = Append(det_log, [response |-> response, outcome |-> r])
            /\ det_active' = IF ~r.raised /\ r.value
                             THEN Append(det_active, chain) ELSE det_active
    /\ UNCHANGED nonDetVars

\* ChainScanner.discover_protocols: the names, in registry order, of the
\* handlers of the chain whose discovery events were found (`found`)
DiscoverProtocols(chain, found) ==
    LET hs == SelectSeq(get_handlers_for_chain(chain),
                        LAMBDA h : h.name \in found)
    IN [i \in 1..Len(hs) |-> hs[i].name]

ChainActivity(chain, has, protocols) ==
    [chain |-> chain, has_activity |-> has, protocols_detected |-> protocols]

(* ------------------------------------------------------------------ *)
(* PositionAggregator: pure parts                                       *)
(* ------------------------------------------------------------------ *)
\* _get_chain_positions: runs the handlers of `protocols` in order; a handler
\* whose constructor raises ends the call with that error, a get_positions
\* that raises is skipped
RECURSIVE GetChainPositions(_, _, _, _, _)
GetChainPositions(chain, protocols, behav, i, acc) ==
    IF i > Len(protocols)
    THEN [raised |-> FALSE, positions |-> acc.positions, calls |-> acc.calls]
    ELSE LET name == protocols[i] IN
         IF get_handler(name) = None
         THEN GetChainPositions(chain, protocols, behav, i + 1, acc)
         ELSE IF behav[name] = "ctor_raises"
         THEN [raised |-> TRUE, positions |-> <<>>, calls |-> acc.calls]
         ELSE IF behav[name] = "get_raises"
         THEN GetChainPositions(chain, protocols, behav, i + 1,
                  [acc EXCEPT !.calls = @ + 1])
         ELSE GetChainPositions(chain, protocols, behav, i + 1,
                  [positions |-> acc.positions \o HandlerPositions(name, chain),
                   calls |-> acc.calls + 1])

MaxWorkers_NoCap(n) == n

\* min(len(active_chains), 4)
MaxWorkers(n) == Min(n, PoolCap)

CollectFuture_NoCatch(status, result, acc) ==
    IF status = "returned"
    THEN [escaped |-> FALSE, all_positions |-> acc \o result]
    ELSE [escaped |-> TRUE, all_positions |-> acc]

\* try: all_positions.extend(future.result(timeout=30)) except Exception: pass
CollectFuture(status, result, acc) ==
    IF status = "returned"
    THEN [escaped |-> FALSE, all_positions |-> acc \o result]
    ELSE [escaped |-> FALSE, all_positions |-> acc]

\* the (chain, token_address) pairs whose price is requested
TokensToPrice(positions) ==
    UNION { {<<positions[i].chain, positions[i].token>>} \cup
            (IF IsSome(positions[i].underlying_token)
             THEN {<<positions[i].chain, Val(positions[i].underlying_token)>>}
             ELSE {}) : i \in 1..Len(positions) }

\* pricing_service.get_prices: an entry for a requested pair, when the feed
\* has one
GetPrices(keys, feed) == [k \in keys \cap DOMAIN feed |-> feed[k]]

\* prices.get(key, Decimal("0"))
PriceOf(pr, key) == IF key \in DOMAIN pr THEN pr[key] ELSE 0

EnrichReward(chain, reward, pr) ==
    LET p == PriceOf(pr, <<chain, reward.token>>)
    IN IF p > 0 THEN [reward EXCEPT !.usd_value = Some(reward.amount * p)]
       ELSE reward

EnrichPosition_NoFallback(pos, pr) ==
    LET token_price == PriceOf(pr, <<pos.chain, pos.token>>)
        usd ==
          IF IsSome(pos.underlying_token) /\ Truthy(pos.underlying_balance)
          THEN LET underlying_price ==
                       PriceOf(pr, <<pos.chain, Val(pos.underlying_token)>>)
               IN IF underlying_price > 0
                  THEN Some(Val(pos.underlying_balance) * underlying_price)
                  ELSE pos.usd_value
          ELSE IF token_price > 0 THEN Some(pos.balance * token_price)
               ELSE pos.usd_value
    IN [pos EXCEPT !.usd_value = usd,
                   !.claimable_rewards =
                       [i \in 1..Len(@) |-> EnrichReward(pos.chain, @[i], pr)]]

\* the body of the enrichment loop for one position
EnrichPosition(pos, pr) ==
    LET token_price == PriceOf(pr, <<pos.chain, pos.token>>)
        usd ==
          IF IsSome(pos.underlying_token) /\ Truthy(pos.underlying_balance)
          THEN LET underlying_price ==
                       PriceOf(pr, <<pos.chain, Val(pos.underlying_token)>>)
               IN IF underlying_price > 0
                  THEN Some(Val(pos.underlying_balance) * underlying_price)
                  ELSE IF token_price > 0
                       THEN Some(pos.balance * token_price)
                       ELSE pos.usd_value
          ELSE IF token_price > 0 THEN Some(pos.balance * token_price)
               ELSE pos.usd_value
    IN [pos EXCEPT !.usd_value = usd,
                   !.claimable_rewards =
                       [i \in 1..Len(@) |-> EnrichReward(pos.chain, @[i], pr)]]

\* _enrich_positions_with_pricing: the price map it fetched and the list
EnrichPositions(positions, feed) ==
    IF positions = <<>>
    THEN [prices |-> <<>>, positions |-> positions, calls |-> 0,
          request |-> None]
    ELSE LET pr == GetPrices(TokensToPrice(positions), feed)
         IN [prices |-> pr,
             positions |-> [i \in 1..Len(positions) |->
                               EnrichPosition(positions[i], pr)],
             calls |-> 1,
             request |-> Some(TokensToPrice(positions))]

\* dict.get(k, 0) and d[k] = v on by_chain / by_protocol
MapGet(m, k) == IF k \in DOMAIN m THEN m[k] ELSE 0
MapPut(m, k, v) == [x \in DOMAIN m \cup {k} |-> IF x = k THEN v ELSE m[x]]

\* `position.usd_value or Decimal("0")`
UsdOrZero(o) == IF Truthy(o) THEN Val(o) ELSE 0

RewardsUsd(pos) ==
    SeqSum([i \in 1..Len(pos.claimable_rewards) |->
               UsdOrZero(pos.claimable_rewards[i].usd_value)])

SummaryStep_SkipsChainOfUnpriced(acc, pos) ==
    LET v == UsdOrZero(pos.usd_value) IN
    [positions |-> Append(acc.positions, pos),
     total_usd_value |-> acc.total_usd_value + v,
     by_chain |-> IF v = 0 THEN acc.by_chain
                  ELSE MapPut(acc.by_chain, pos.chain,
                              MapGet(acc.by_chain, pos.chain) + v),
     by_protocol |-> MapPut(acc.by_protocol, pos.protocol,
                            MapGet(acc.by_protocol, pos.protocol) + v),
     total_claimable_rewards_usd |->
         acc.total_claimable_rewards_usd + RewardsUsd(pos)]

\* the body of the loop of _build_portfolio_summary for one position
SummaryStep(acc, pos) ==
    LET v == UsdOrZero(pos.usd_value) IN
    [positions |-> Append(acc.positions, pos),
     total_usd_value |-> acc.total_usd_value + v,
     by_chain |-> MapPut(acc.by_chain, pos.chain,
                         MapGet(acc.by_chain, pos.chain) + v),
     by_protocol |-> MapPut(acc.by_protocol, pos.protocol,
                            MapGet(acc.by_protocol, pos.protocol) + v),
     total_claimable_rewards_usd |->
         acc.total_claimable_rewards_usd + RewardsUsd(pos)]

\* PortfolioSummary(positions=[], total_usd_value=0, by_chain={}, ...)
EmptySummary ==
    [positions |-> <<>>, total_usd_value |-> 0, by_chain |-> <<>>,
     by_protocol |-> <<>>, total_claimable_rewards_usd |-> 0]

RECURSIVE SummaryFold(_, _, _)
SummaryFold(positions, i, acc) ==
    IF i > Len(positions) THEN acc
    ELSE SummaryFold(positions, i + 1, SummaryStep(acc, positions[i]))

\* _build_portfolio_summary
BuildPortfolioSummary(positions) == SummaryFold(positions, 1, EmptySummary)

(* ------------------------------------------------------------------ *)
(* Price feeds                                                          *)
(* ------------------------------------------------------------------ *)
\* the largest price of a feed
MaxPrice == 1

TokenAddrs == {"", "steth", "eth", "rwd"}

\* the price feeds of the pipeline: a price per token address, the same on
\* every chain, 0 meaning "unknown token"
PipelineFeeds ==
    { [k \in AllChains \X TokenAddrs |-> a[k[2]]] :
        a \in [TokenAddrs -> 0..MaxPrice] }

(* ------------------------------------------------------------------ *)
(* PositionAggregator.get_all_positions: the state machine              *)
(* ------------------------------------------------------------------ *)

AggInit ==
    /\ pc = "detect"
    /\ idx = 1
    /\ active_chains = <<>>
    /\ chain_activities = <<>>
    /\ probes = [c \in Chains |-> <<>>]
    /\ max_workers = 0
    /\ submitted = <<>>
    /\ future = [c \in Chains |-> "none"]
    /\ future_result = [c \in Chains |-> <<>>]
    /\ collected = {}
    /\ all_positions = <<>>
    /\ prices = <<>>
    /\ summary = None
    /\ nDiscover = 0
    /\ nGetPositions = 0
    /\ nGetPrices = 0

HandlerNames == {handlers[i].name : i \in 1..Len(handlers)}

InSeq(x, s) == \E i \in 1..Len(s) : s[i] = x

\* the activities get_all_positions fans out over
ActiveActivities == SelectSeq(chain_activities, LAMBDA a : a.has_activity)

Running == {c \in Chains : future[c] \in {"running", "hung"}}

\* scan_all_chains, first pass (detect_active_chains): probe the next chain
DetectProbeOn(answers) ==
    /\ pc = "detect"
    /\ \E answer \in answers :
         /\ probes' = [probes EXCEPT ![idx] = Append(@, answer)]
         /\ active_chains' = IF HasChainActivity(answer)
                             THEN Append(active_chains, idx)
                             ELSE active_chains
    /\ idx' = IF idx = num_chains THEN 1 ELSE idx + 1
    /\ pc' = IF idx = num_chains THEN "scan" ELSE pc
    /\ UNCHANGED <<nonAggVars, handlers, num_chains, chain_activities, max_workers, submitted, future,
                   future_result, collected, all_positions, prices, summary,
                   nDiscover, nGetPositions, nGetPrices>>

\* scan_all_chains, second pass, a chain outside the active set
ScanInactive ==
    /\ pc = "scan"
    /\ ~InSeq(idx, active_chains)
    /\ chain_activities' =
           Append(chain_activities, ChainActivity(idx, FALSE, <<>>))
    /\ idx' = IF idx = num_chains THEN 1 ELSE idx + 1
    /\ pc' = IF idx = num_chains THEN "select" ELSE pc
    /\ UNCHANGED <<nonAggVars, handlers, num_chains, active_chains, probes, max_workers, submitted,
                   future, future_result, collected, all_positions, prices,
                   summary, nDiscover, nGetPositions, nGetPrices>>

ScanChainOn_NoShortCircuit(answers, founds) ==
    /\ pc = "scan"
    /\ InSeq(idx, active_chains)
    /\ \E answer \in answers :
         /\ probes' = [probes EXCEPT ![idx] = Append(@, answer)]
         /\ \E found \in founds :
                 /\ chain_activities' =
                      Append(chain_activities,
                             ChainActivity(idx, HasChainActivity(answer),
                                           DiscoverProtocols(idx, found)))
                 /\ nDiscover' = nDiscover + 1
    /\ idx' = IF idx = num_chains THEN 1 ELSE idx + 1
    /\ pc' = IF idx = num_chains THEN "select" ELSE pc
    /\ UNCHANGED <<nonAggVars, handlers, num_chains, active_chains, max_workers, submitted, future,
                   future_result, collected, all_positions, prices, summary,
                   nGetPositions, nGetPrices>>

\* scan_all_chains, second pass, scan_chain of a chain of the active set: the
\* activity probe again, then discover_protocols
ScanChainOn(answers, founds) ==
    /\ pc = "scan"
    /\ InSeq(idx, active_chains)
    /\ \E answer \in answers :
         /\ probes' = [probes EXCEPT ![idx] = Append(@, answer)]
         /\ IF ~HasChainActivity(answer)
            THEN /\ chain_activities' =
                      Append(chain_activities, ChainActivity(idx, FALSE, <<>>))
                 /\ nDiscover' = nDiscover
            ELSE \E found \in founds :
                 /\ chain_activities' =
                      Append(chain_activities,
                             ChainActivity(idx, TRUE, DiscoverProtocols(idx, found)))
                 /\ nDiscover' = nDiscover + 1
    /\ idx' = IF idx = num_chains THEN 1 ELSE idx + 1
    /\ pc' = IF idx = num_chains THEN "select" ELSE pc
    /\ UNCHANGED <<nonAggVars, handlers, num_chains, active_chains, max_workers, submitted, future,
                   future_result, collected, all_positions, prices, summary,
                   nGetPositions, nGetPrices>>

\* `if not active_chains: return PortfolioSummary(...)`
ReturnEmpty ==
    /\ pc = "select"
    /\ ActiveActivities = <<>>
    /\ summary' = Some(EmptySummary)
    /\ pc' = "done"
    /\ UNCHANGED <<nonAggVars, handlers, num_chains, idx, active_chains, chain_activities, probes,
                   max_workers, submitted, future, future_result, collected,
                   all_positions, prices, nDiscover, nGetPositions, nGetPrices>>

\* `with ThreadPoolExecutor(max_workers=min(len(active_chains), 4))`
OpenPool ==
    /\ pc = "select"
    /\ ActiveActivities # <<>>
    /\ max_workers' = MaxWorkers(Len(ActiveActivities))
    /\ idx' = 1
    /\ pc' = "submit"
    /\ UNCHANGED <<nonAggVars, handlers, num_chains, active_chains, chain_activities, probes, submitted,
                   future, future_result, collected, all_positions, prices,
                   summary, nDiscover, nGetPositions, nGetPrices>>

\* executor.submit(self._get_chain_positions_with_debug, ...) for the next
\* active chain
Submit ==
    /\ pc = "submit"
    /\ LET c == ActiveActivities[idx].chain IN
         /\ future' = [future EXCEPT ![c] = "queued"]
         /\ submitted' = Append(submitted, c)
    /\ idx' = IF idx = Len(ActiveActivities) THEN 1 ELSE idx + 1
    /\ pc' = IF idx = Len(ActiveActivities) THEN "collect" ELSE pc
    /\ UNCHANGED <<nonAggVars, handlers, num_chains, active_chains, chain_activities, probes,
                   max_workers, future_result, collected, all_positions, prices,
                   summary, nDiscover, nGetPositions, nGetPrices>>

\* a free worker of the pool takes the first queued task (FIFO work queue)
TaskStart ==
    /\ Cardinality(Running) < max_workers
    /\ \E i \in 1..Len(submitted) :
         /\ future[submitted[i]] = "queued"
         /\ \A j \in 1..(i - 1) : future[submitted[j]] # "queued"
         /\ future' = [future EXCEPT ![submitted[i]] = "running"]
    /\ UNCHANGED <<nonAggVars, handlers, num_chains, pc, idx, active_chains, chain_activities, probes,
                   max_workers, submitted, future_result, collected,
                   all_positions, prices, summary, nDiscover, nGetPositions,
                   nGetPrices>>

ProtocolsOf(c) ==
    LET hit == {i \in 1..Len(chain_activities) : chain_activities[i].chain = c}
    IN chain_activities[CHOOSE i \in hit : TRUE].protocols_detected

\* a running task ends: _get_chain_positions returned or raised
TaskFinishOn(behaviours) ==
    \E c \in Chains :
      /\ future[c] = "running"
      /\ \E behav \in [HandlerNames -> behaviours] :
           LET r == GetChainPositions(c, ProtocolsOf(c), behav, 1,
                                      [positions |-> <<>>, calls |-> 0])
           IN /\ future' = [future EXCEPT
                               ![c] = IF r.raised THEN "raised" ELSE "returned"]
              /\ future_result' = [future_result EXCEPT ![c] = r.positions]
              /\ nGetPositions' = nGetPositions + r.calls
      /\ UNCHANGED <<nonAggVars, handlers, num_chains, pc, idx, active_chains, chain_activities, probes,
                     max_workers, submitted, collected, all_positions, prices,
                     summary, nDiscover, nGetPrices>>

\* a running task blocks for ever in a remote call of a handler
TaskHang ==
    \E c \in Chains :
      /\ future[c] = "running"
      /\ ProtocolsOf(c) # <<>>
      /\ future' = [future EXCEPT ![c] = "hung"]
      /\ UNCHANGED <<nonAggVars, handlers, num_chains, pc, idx, active_chains, chain_activities, probes,
                     max_workers, submitted, future_result, collected,
                     all_positions, prices, summary, nDiscover, nGetPositions,
                     nGetPrices>>

\* no chain task has run a handler yet: `positions = []`, the loop at the
\* first protocol
FanIdle ==
    /\ task_positions = [c \in AllChains |-> <<>>]
    /\ task_next = [c \in AllChains |-> 1]
    /\ task_log = [c \in AllChains |-> <<>>]

TaskStepOn_SharedBuffer(behaviours) ==
    \E c \in Chains :
      /\ future[c] = "running"
      /\ task_next[c] <= Len(ProtocolsOf(c))
      /\ \E b \in behaviours :
           LET name == ProtocolsOf(c)[task_next[c]] IN
             /\ future' = [future EXCEPT ![c] = IF b = "ctor_raises"
                                                THEN "raised" ELSE @]
             /\ all_positions' = IF b = "ok"
                                 THEN all_positions \o HandlerPositions(name, c)
                                 ELSE all_positions
             /\ nGetPositions' = IF b = "ctor_raises" THEN nGetPositions
                                 ELSE nGetPositions + 1
             /\ task_next' = [task_next EXCEPT ![c] = IF b = "ctor_raises"
                                                      THEN @ ELSE @ + 1]
             /\ task_log' = [task_log EXCEPT ![c] = Append(@, b)]
      /\ UNCHANGED <<nonAggFanVars, handlers, num_chains, pc, idx, active_chains,
                     chain_activities, probes, max_workers, submitted,
                     future_result, collected, task_positions, prices, summary,
                     nDiscover, nGetPrices>>

\* one round of `for protocol_name in protocols` in the task of a chain: an
\* unregistered name is skipped, the handler is constructed (an error there
\* ends the task), get_positions is called and what it returns is appended
\* to the task's own list (an error there is skipped)
TaskStepOn(behaviours) ==
    \E c \in Chains :
      /\ future[c] = "running"
      /\ task_next[c] <= Len(ProtocolsOf(c))
      /\ \E b \in behaviours :
           LET name == ProtocolsOf(c)[task_next[c]] IN
             IF get_handler(name) = None
             THEN /\ task_next' = [task_next EXCEPT ![c] = @ + 1]
                  /\ task_log' = [task_log EXCEPT ![c] = Append(@, "unregistered")]
                  /\ UNCHANGED <<future, task_positions, nGetPositions>>
             ELSE IF b = "ctor_raises"
             THEN /\ future' = [future EXCEPT ![c] = "raised"]
                  /\ task_log' = [task_log EXCEPT ![c] = Append(@, b)]
                  /\ UNCHANGED <<task_next, task_positions, nGetPositions>>
             ELSE /\ task_log' = [task_log EXCEPT ![c] = Append(@, b)]
                  /\ task_positions' =
                       [task_positions EXCEPT
                          ![c] = IF b = "ok" THEN @ \o HandlerPositions(name, c)
                                 ELSE @]
                  /\ task_next' = [task_next EXCEPT ![c] = @ + 1]
                  /\ nGetPositions' = nGetPositions + 1
                  /\ UNCHANGED future
      /\ UNCHANGED <<nonAggFanVars, handlers, num_chains, pc, idx, active_chains,
                     chain_activities, probes, max_workers, submitted,
                     future_result, collected, all_positions, prices, summary,
                     nDiscover, nGetPrices>>

\* `return positions` of the task of a chain: the future holds the task's list
TaskReturn ==
    \E c \in Chains :
      /\ future[c] = "running"
      /\ task_next[c] > Len(ProtocolsOf(c))
      /\ future' = [future EXCEPT ![c] = "returned"]
      /\ future_result' = [future_result EXCEPT ![c] = task_positions[c]]
      /\ UNCHANGED <<nonAggFanVars, handlers, num_chains, pc, idx, active_chains,
                     chain_activities, probes, max_workers, submitted,
                     collected, all_positions, prices, summary, nDiscover,
                     nGetPositions, nGetPrices, task_positions, task_next,
                     task_log>>

\* one round of `for future in as_completed(future_to_chain)`: as_completed
\* yields a finished future, future.result(timeout=30) returns at once
Collect ==
    /\ pc = "collect"
    /\ \E c \in Chains :
         /\ future[c] \in {"returned", "raised"}
         /\ c \notin collected
         /\ LET r == CollectFuture(future[c], future_result[c], all_positions)
            IN /\ all_positions' = r.all_positions
               /\ pc' = IF r.escaped THEN "raised" ELSE pc
         /\ collected' = collected \cup {c}
    /\ UNCHANGED <<nonAggVars, handlers, num_chains, idx, active_chains, chain_activities, probes,
                   max_workers, submitted, future, future_result, prices,
                   summary, nDiscover, nGetPositions, nGetPrices>>

ClosePool_NoWait ==
    /\ pc = "collect"
    /\ pc' = "enrich"
    /\ UNCHANGED <<nonAggVars, handlers, num_chains, idx, active_chains, chain_activities, probes,
                   max_workers, submitted, future, future_result, collected,
                   all_positions, prices, summary, nDiscover, nGetPositions,
                   nGetPrices>>

\* as_completed is exhausted once every future was yielded; the `with` block
\* ends (shutdown(wait=True))
ClosePool ==
    /\ pc = "collect"
    /\ collected = {submitted[i] : i \in 1..Len(submitted)}
    /\ pc' = "enrich"
    /\ UNCHANGED <<nonAggVars, handlers, num_chains, idx, active_chains, chain_activities, probes,
                   max_workers, submitted, future, future_result, collected,
                   all_positions, prices, summary, nDiscover, nGetPositions,
                   nGetPrices>>

\* the pricing service was not called
PriceIdle ==
    /\ price_feed = <<>>
    /\ price_request = None

\* enriched_positions = self._enrich_positions_with_pricing(all_positions)
EnrichOn(feeds) ==
    /\ pc = "enrich"
    /\ \E feed \in feeds :
         LET r == EnrichPositions(all_positions, feed)
         IN /\ all_positions' = r.positions
            /\ prices' = r.prices
            /\ nGetPrices' = nGetPrices + r.calls
    /\ pc' = "summary"
    /\ UNCHANGED <<nonAggVars, handlers, num_chains, idx, active_chains, chain_activities, probes,
                   max_workers, submitted, future, future_result, collected,
                   summary, nDiscover, nGetPositions>>

\* the same step, with the call of the pricing service observed: the prices
\* the service has and the pairs it is asked for
EnrichObservedOn(feeds) ==
    /\ pc = "enrich"
    /\ \E feed \in feeds :
         LET r == EnrichPositions(all_positions, feed)
         IN /\ all_positions' = r.positions
            /\ prices' = r.prices
            /\ nGetPrices' = nGetPrices + r.calls
            /\ price_feed' = feed
            /\ price_request' = r.request
    /\ pc' = "summary"
    /\ UNCHANGED <<nonAggPriceVars, handlers, num_chains, idx, active_chains, chain_activities, probes,
                   max_workers, submitted, future, future_result, collected,
                   summary, nDiscover, nGetPositions>>

\* summary = self._build_portfolio_summary(user_address, enriched_positions)
BuildSummary ==
    /\ pc = "summary"
    /\ summary' = Some(BuildPortfolioSummary(all_positions))
    /\ pc' = "done"
    /\ UNCHANGED <<nonAggVars, handlers, num_chains, idx, active_chains, chain_activities, probes,
                   max_workers, submitted, future, future_result, collected,
                   all_positions, prices, nDiscover, nGetPositions, nGetPrices>>

(* ------------------------------------------------------------------ *)
(* The retry wrappers: with_retry, RetryManager.execute_with_retry,     *)
(* ApeRPCProvider.make_request                                          *)
(* ------------------------------------------------------------------ *)
\* the largest max_retries of a configuration: enough for the default
\* schedule to reach its cap twice
MaxRetries == 7

\* RetryConfig defaults: base_delay=1.0, max_delay=30.0, exponential_base=2.0
DefaultBaseDelay == 1
DefaultMaxDelay == 30
DefaultExponentialBase == 2

RECURSIVE Pow(_, _)
Pow(b, e) == IF e = 0 THEN 1 ELSE b * Pow(b, e - 1)

get_delay_NoCap(cfg, n) == cfg.base_delay * Pow(cfg.exponential_base, n)

\* RetryConfig.get_delay
get_delay(cfg, n) ==
    Min(cfg.base_delay * Pow(cfg.exponential_base, n), cfg.max_delay)

\* a second schedule, with another base, growth and cap
AltBaseDelay == 2
AltMaxDelay == 20
AltExponentialBase == 3

\* RetryConfig(max_retries, base_delay, max_delay, exponential_base) objects
RetryConfigs ==
    {[max_retries |-> m, base_delay |-> DefaultBaseDelay,
      max_delay |-> DefaultMaxDelay,
      exponential_base |-> DefaultExponentialBase] : m \in 0..MaxRetries}
    \cup
    {[max_retries |-> m, base_delay |-> AltBaseDelay,
      max_delay |-> AltMaxDelay,
      exponential_base |-> AltExponentialBase] : m \in 0..MaxRetries}

RetryKinds == {"with_retry", "execute_with_retry", "make_request"}

\* what the wrapped call can do: return a value or raise an error
CallValues == {"v1", "v2"}
CallErrors == {"e1", "e2"}
CallOutcomes ==
    {[ok |-> TRUE, v |-> x] : x \in CallValues} \cup
    {[ok |-> FALSE, v |-> x] : x \in CallErrors}

IsLastAttempt_OneMore(cfg, n) == n = cfg.max_retries + 1

\* `if attempt == config.max_retries: break`
IsLastAttempt(cfg, n) == n = cfg.max_retries

RetryIdle ==
    /\ retry_kind = "with_retry"
    /\ config = [max_retries |-> 0, base_delay |-> DefaultBaseDelay,
                 max_delay |-> DefaultMaxDelay,
                 exponential_base |-> DefaultExponentialBase]
    /\ connected = TRUE
    /\ retry_pc = "idle"
    /\ attempt = 0
    /\ call_log = <<>>
    /\ last_exception = None
    /\ retry_outcome = None
    /\ sleeps = <<>>
    /\ rotations = 0

\* a wrapper is entered: `last_exception = None`, the first attempt is next
RetryInit ==
    /\ retry_kind \in RetryKinds
    /\ config \in RetryConfigs
    /\ connected \in IF retry_kind = "make_request" THEN BOOLEAN ELSE {TRUE}
    /\ retry_pc = "call"
    /\ attempt = 0
    /\ call_log = <<>>
    /\ last_exception = None
    /\ retry_outcome = None
    /\ sleeps = <<>>
    /\ rotations = 0

\* ApeRPCProvider.make_request without a provider: RuntimeError, no call
NotConnected ==
    /\ retry_pc = "call"
    /\ ~connected
    /\ retry_pc' = "raised"
    /\ retry_outcome' = Some("not_connected")
    /\ UNCHANGED <<nonRetryVars, retry_kind, config, connected, attempt,
                   call_log, last_exception, sleeps, rotations>>

\* one round of `for attempt in range(max_retries + 1)`: the call returns
Succeed ==
    /\ retry_pc = "call"
    /\ connected
    /\ \E x \in CallValues :
         /\ call_log' = Append(call_log, [ok |-> TRUE, v |-> x])
         /\ retry_outcome' = Some(x)
    /\ retry_pc' = "returned"
    /\ UNCHANGED <<nonRetryVars, retry_kind, config, connected, attempt,
                   last_exception, sleeps, rotations>>

\* one round of the loop: the call raises; the wrapper records the error
\* (RetryManager also rotates the endpoint), then breaks out of the loop and
\* raises last_exception, or computes the delay
Fail ==
    /\ retry_pc = "call"
    /\ connected
    /\ \E e \in CallErrors :
         /\ call_log' = Append(call_log, [ok |-> FALSE, v |-> e])
         /\ last_exception' = Some(e)
         /\ IF IsLastAttempt(config, attempt)
            THEN /\ retry_pc' = "raised"
                 /\ retry_outcome' = Some(e)
            ELSE /\ retry_pc' = "sleep"
                 /\ retry_outcome' = retry_outcome
    /\ rotations' = IF retry_kind = "execute_with_retry"
                    THEN rotations + 1 ELSE rotations
    /\ UNCHANGED <<nonRetryVars, retry_kind, config, connected, attempt, sleeps>>

\* time.sleep(config.get_delay(attempt)), then the next round
Sleep ==
    /\ retry_pc = "sleep"
    /\ sleeps' = Append(sleeps, get_delay(config, attempt))
    /\ attempt' = attempt + 1
    /\ retry_pc' = "call"
    /\ UNCHANGED <<nonRetryVars, retry_kind, config, connected, call_log,
                   last_exception, retry_outcome, rotations>>

(* ------------------------------------------------------------------ *)
(* RPCCache                                                             *)
(* ------------------------------------------------------------------ *)
\* the largest TTL (supplied or default) and the last instant of the clock
MaxTtl == 1
MaxTime == 2

CacheMethods == {"eth_call", "eth_getLogs"}
\* parameter lists, as the JSON text json.dumps gives them
CacheParams == {"[]"}
CacheValues == {"v1", "v2"}

\* RPCCache._make_key: the SHA-256 digest of the JSON text of
\* {"method": m, "params": p}; distinct texts have distinct digests
MakeKey(m, p) == <<m, p>>

CacheKeys == {MakeKey(m, p) : m \in CacheMethods, p \in CacheParams}

\* the ttl argument of set: None or a number of seconds
TtlArgs == {None} \cup {Some(t) : t \in 0..MaxTtl}

\* `ttl = ttl or self.default_ttl`
ResolveTtl(ttl, dflt) == IF Truthy(ttl) THEN Val(ttl) ELSE dflt

\* CacheEntry.__init__ as set calls it: created_at is time.time()
CacheEntry(value, ttl, t) == [value |-> value, ttl |-> ttl, created_at |-> t]

\* CacheEntry.is_expired
IsExpired(entry, t) == (t - entry.created_at) > entry.ttl

CacheIdle ==
    /\ default_ttl = 0
    /\ cache = <<>>
    /\ now = 0
    /\ last_set = [k \in CacheKeys |-> None]
    /\ last_get = None
    /\ last_cleanup = None

\* RPCCache(default_ttl=...)
CacheInit ==
    /\ default_ttl \in 0..MaxTtl
    /\ cache = <<>>
    /\ now = 0
    /\ last_set = [k \in CacheKeys |-> None]
    /\ last_get = None
    /\ last_cleanup = None

\* RPCCache.set, the callers storing values of `values`
CacheSetOf(values) ==
    /\ \E m \in CacheMethods, p \in CacheParams, v \in values,
          ttl \in TtlArgs :
         LET key == MakeKey(m, p) IN
           /\ cache' = MapPut(cache, key,
                              CacheEntry(v, ResolveTtl(ttl, default_ttl), now))
           /\ last_set' = [last_set EXCEPT
                              ![key] = Some([value |-> v, ttl |-> ttl, at |-> now])]
    /\ UNCHANGED <<nonCacheVars, default_ttl, now, last_get, last_cleanup>>

CacheSet == CacheSetOf(CacheValues)

\* RPCCache.get
CacheGet ==
    /\ \E m \in CacheMethods, p \in CacheParams :
         LET key == MakeKey(m, p) IN
           IF key \notin DOMAIN cache
           THEN /\ cache' = cache
                /\ last_get' = Some([key |-> key, result |-> None, at |-> now,
                                     set |-> last_set[key]])
           ELSE IF IsExpired(cache[key], now)
           THEN /\ cache' = [k \in DOMAIN cache \ {key} |-> cache[k]]
                /\ last_get' = Some([key |-> key, result |-> None, at |-> now,
                                     set |-> last_set[key]])
           ELSE /\ cache' = cache
                /\ last_get' = Some([key |-> key,
                                     result |-> Some(cache[key].value),
                                     at |-> now, set |-> last_set[key]])
    /\ UNCHANGED <<nonCacheVars, default_ttl, now, last_set, last_cleanup>>

\* RPCCache.clear
CacheClear ==
    /\ cache # <<>>
    /\ cache' = <<>>
    /\ last_set' = [k \in CacheKeys |-> None]
    /\ UNCHANGED <<nonCacheVars, default_ttl, now, last_get, last_cleanup>>

\* cleanup_expired deleting every entry, expired or not
CleanupExpired_DropsAll ==
    /\ cache' = <<>>
    /\ last_cleanup' = Some(Cardinality(DOMAIN cache))
    /\ UNCHANGED <<nonCacheVars, default_ttl, now, last_set, last_get>>

\* RPCCache.cleanup_expired
CleanupExpired ==
    /\ LET expired_keys == {k \in DOMAIN cache : IsExpired(cache[k], now)} IN
         /\ cache' = [k \in DOMAIN cache \ expired_keys |-> cache[k]]
         /\ last_cleanup' = Some(Cardinality(expired_keys))
    /\ UNCHANGED <<nonCacheVars, default_ttl, now, last_set, last_get>>

\* a second passes
Tick ==
    /\ now < MaxTime
    /\ now' = now + 1
    /\ UNCHANGED <<nonCacheVars, default_ttl, cache, last_set, last_get,
                   last_cleanup>>

(* ------------------------------------------------------------------ *)
(* MulticallBatcher                                                     *)
(* ------------------------------------------------------------------ *)
\* the longest queue and the largest max_retries of the batcher's config
MaxBatch == 3
MaxBatchRetries == 1

BatchCalls ==
    { [address |-> a, method |-> "balanceOf", params |-> <<>>] :
        a \in {"0xa1", "0xa2"} }

\* what method(*params) returns when the provider answers
CallResult(call) == <<"ret", call.address>>

\* the provider's answers to the attempts of one call: the number of the
\* first attempt that returns, get_contract or the method raising in the
\* attempts before it; 0 when every attempt raises
AttemptAnswers(cfg) == 0..(cfg.max_retries + 1)

\* MulticallBatcher._execute_single_call_with_retry from attempt `n` on:
\* the slot's value (None after the last failure) and the attempts made
RECURSIVE ExecuteSingleCallWithRetry(_, _, _, _)
ExecuteSingleCallWithRetry(call, cfg, answers, n) ==
    IF n > cfg.max_retries
    THEN [result |-> None, attempts |-> n]
    ELSE IF answers = n + 1
    THEN [result |-> Some(CallResult(call)), attempts |-> n + 1]
    ELSE IF n = cfg.max_retries
    THEN [result |-> None, attempts |-> n + 1]
    ELSE ExecuteSingleCallWithRetry(call, cfg, answers, n + 1)

AppendResult_DropsFailed(acc, call, r) ==
    IF r.result = None
    THEN acc
    ELSE [acc EXCEPT !.results = Append(@, r.result),
                     !.log = Append(@, [call |-> call, attempts |-> r.attempts])]

\* results.append(result); `log` is the calls made, with their attempts
AppendResult(acc, call, r) ==
    [acc EXCEPT !.results = Append(@, r.result),
                !.log = Append(@, [call |-> call, attempts |-> r.attempts])]

\* MulticallBatcher._execute_individually: the loop over self._calls from
\* the i-th call on
RECURSIVE ExecuteIndividually(_, _, _, _, _)
ExecuteIndividually(calls, cfg, answers, i, acc) ==
    IF i > Len(calls)
    THEN acc
    ELSE ExecuteIndividually(calls, cfg, answers, i + 1,
            AppendResult(acc, calls[i],
               ExecuteSingleCallWithRetry(calls[i], cfg, answers[i], 0)))

BatchIdle ==
    /\ batch_config = [max_retries |-> 0]
    /\ batch_calls = <<>>
    /\ last_execute = None

\* MulticallBatcher(provider, retry_config)
BatchInit ==
    /\ batch_config \in [max_retries : 0..MaxBatchRetries]
    /\ batch_calls = <<>>
    /\ last_execute = None

\* MulticallBatcher.add_call
AddCall ==
    /\ Len(batch_calls) < MaxBatch
    /\ \E call \in BatchCalls : batch_calls' = Append(batch_calls, call)
    /\ last_execute' = None
    /\ UNCHANGED <<nonBatchVars, batch_config>>

\* MulticallBatcher.execute
Execute ==
    /\ \E answers \in [1..Len(batch_calls) -> AttemptAnswers(batch_config)] :
         LET out == IF batch_calls = <<>>
                    THEN [raised |-> FALSE, results |-> <<>>, log |-> <<>>]
                    ELSE ExecuteIndividually(batch_calls, batch_config, answers, 1,
                           [raised |-> FALSE, results |-> <<>>, log |-> <<>>])
         IN /\ last_execute' = Some([queue |-> batch_calls, answers |-> answers,
                                     raised |-> out.raised,
                                     results |-> out.results, log |-> out.log])
            /\ batch_calls' = IF out.raised THEN batch_calls ELSE <<>>
    /\ UNCHANGED <<nonBatchVars, batch_config>>

\* MulticallBatcher.clear
BatchClear ==
    /\ batch_calls # <<>>
    /\ batch_calls' = <<>>
    /\ UNCHANGED <<nonBatchVars, batch_config, last_execute>>

(* ------------------------------------------------------------------ *)
(* ChainScanner.discover_protocols, probe by probe                      *)
(* ------------------------------------------------------------------ *)
\* the chain's blocks are 0..MaxBlock; "latest" is block MaxBlock
MaxBlock == 2
Blocks == 0..MaxBlock
Latest == "latest"

\* The provider as one probe sees it. `logs_at`: the blocks holding a log that
\* matches the topics (one log each); `bad`: requests starting at such a block
\* fail with another error; `limit`: a request matching more logs fails with
\* "query returned more than 10000 results. Try with this block range [a, b]";
\* `anchor`: whether the suggested range starts at the request's first block
\* or ends at its last, written as hex() writes them; `shape`: whether a
\* result is a list or null.
Providers ==
    [ logs_at : SUBSET Blocks,
      bad     : {{}} \cup {{b} : b \in Blocks},
      limit   : {1, MaxBlock + 1},
      anchor  : {"start", "end"},
      shape   : {"list", "null"} ]

\* hex(n) and int(text, 16) for the block numbers of the model
HexText == << "0x0", "0x1", "0x2", "0x3", "0x4", "0x5", "0x6", "0x7",
              "0x8", "0x9", "0xa", "0xb", "0xc", "0xd", "0xe", "0xf" >>
\* the same numbers as a provider may also write them, with a leading zero
PaddedText == << "0x00", "0x01", "0x02", "0x03", "0x04", "0x05", "0x06",
                 "0x07", "0x08", "0x09", "0x0A", "0x0B", "0x0C", "0x0D",
                 "0x0E", "0x0F" >>
Hex(n) == IF n < 0 THEN "-0x1" ELSE HexText[n + 1]
Int16(text) ==
    IF text = "-0x1" THEN 0 - 1
    ELSE CHOOSE n \in 0..(Len(HexText) - 1) :
           HexText[n + 1] = text \/ PaddedText[n + 1] = text

\* the block a fromBlock/toBlock text names for the provider
BlockOf(ref) == IF ref = Latest THEN MaxBlock ELSE Int16(ref)

MatchingIn(w, lo, hi) == {b \in w.logs_at : lo <= b /\ b <= hi}

RECURSIVE SortedSeq(_)
SortedSeq(S) ==
    IF S = {} THEN <<>>
    ELSE LET m == CHOOSE x \in S : \A y \in S : x <= y
         IN <<m>> \o SortedSeq(S \ {m})

\* rpc_provider.make_request("eth_getLogs", [{fromBlock, toBlock, topics}])
MakeRequest(w, from_block, to_block) ==
    LET lo == BlockOf(from_block)
        hi == BlockOf(to_block)
        found == MatchingIn(w, lo, hi)
    IN
      IF lo \in w.bad
      THEN [kind |-> "error"]
      ELSE IF Cardinality(found) > w.limit
      THEN IF w.anchor = "start"
           THEN [kind |-> "too_many", from |-> Hex(lo),
                 to |-> Hex(CHOOSE b \in lo..hi :
                          /\ Cardinality(MatchingIn(w, lo, b)) = w.limit
                          /\ Cardinality(MatchingIn(w, lo, b + 1)) > w.limit)]
           ELSE [kind |-> "too_many", to |-> Hex(hi),
                 from |-> Hex(CHOOSE b \in lo..hi :
                          /\ Cardinality(MatchingIn(w, b, hi)) = w.limit
                          /\ Cardinality(MatchingIn(w, b - 1, hi)) > w.limit)]
      ELSE [kind |-> "ok",
            logs |-> IF w.shape = "list" THEN Some(SortedSeq(found)) ELSE None]

\* all_logs.extend(sub_logs) inside try/except Exception/pass: a sub-query that
\* raised, or a null on either side, leaves all_logs as it was
Extend(all_logs, sub) ==
    IF sub.raised \/ all_logs = None \/ sub.logs = None
    THEN all_logs
    ELSE Some(Val(all_logs) \o Val(sub.logs))

NotRun == [raised |-> TRUE, logs |-> None, requests |-> <<>>]

\* ChainScanner._query_logs_with_chunking: whether it raised, the logs it
\* returned, and the requests it made with whether each returned a non-empty
\* list
RECURSIVE QueryLogsWithChunking(_, _, _)
QueryLogsWithChunking(w, from_block, to_block) ==
    LET a == MakeRequest(w, from_block, to_block)
        req == [from |-> from_block, to |-> to_block,
                nonempty |-> a.kind = "ok" /\ a.logs # None /\ a.logs # Some(<<>>)]
    IN IF a.kind = "ok"
       THEN [raised |-> FALSE, logs |-> a.logs, requests |-> <<req>>]
       ELSE IF a.kind = "error"
       THEN [raised |-> TRUE, logs |-> None, requests |-> <<req>>]
       ELSE
         LET chunk == QueryLogsWithChunking(w, a.from, a.to) IN
         IF chunk.raised
         THEN [raised |-> TRUE, logs |-> None,
               requests |-> <<req>> \o chunk.requests]
         ELSE
           LET before == IF from_block # a.from
                         THEN QueryLogsWithChunking(w, from_block,
                                                    Hex(Int16(a.from) - 1))
                         ELSE NotRun
               after == IF to_block = Latest \/ to_block # a.to
                        THEN QueryLogsWithChunking(w, Hex(Int16(a.to) + 1),
                                                   to_block)
                        ELSE NotRun
           IN [raised |-> FALSE,
               logs |-> Extend(Extend(chunk.logs, before), after),
               requests |-> <<req>> \o chunk.requests \o before.requests
                              \o after.requests]

HasLogs_AlsoOnError(r) == r.raised \/ r.logs = None \/ Len(Val(r.logs)) > 0

\* `len(logs) > 0` inside try/except Exception/continue
HasLogs(r) == ~r.raised /\ r.logs # None /\ Len(Val(r.logs)) > 0

\* ProtocolRegistry.get_discovery_events
get_discovery_events(chain) ==
    LET hs == get_handlers_for_chain(chain)
    IN [i \in 1..Len(hs) |-> [name |-> hs[i].name,
                              events |-> hs[i].discovery_events]]

\* the topic layouts of a probe: the wallet as 1st, 2nd or 3rd indexed topic
NumLayouts == 3

ScanIdle ==
    /\ scan_pc = "idle"
    /\ scan_chain = 1
    /\ user_is_str = TRUE
    /\ discovery_events = <<>>
    /\ scan_i = 1
    /\ scan_j = 1
    /\ scan_k = 1
    /\ discovered_protocols = <<>>
    /\ hits = {}

\* discover_protocols(user_address, chain) up to its loop
DiscoverStart ==
    /\ scan_pc \in {"idle", "returned"}
    /\ \E chain \in Chains, str \in BOOLEAN :
         /\ scan_chain' = chain
         /\ user_is_str' = str
         /\ discovery_events' = get_discovery_events(chain)
    /\ scan_pc' = "loop"
    /\ scan_i' = 1
    /\ scan_j' = 1
    /\ scan_k' = 1
    /\ discovered_protocols' = <<>>
    /\ hits' = {}
    /\ UNCHANGED nonScanVars

\* _has_protocol_activity makes no request: _pad_address raises on a wallet
\* that is no str, or the protocol has no discovery events
NoProbe ==
    /\ scan_pc = "loop"
    /\ scan_i <= Len(discovery_events)
    /\ ~user_is_str \/ discovery_events[scan_i].events = <<>>
    /\ scan_i' = scan_i + 1
    /\ UNCHANGED <<nonScanVars, scan_pc, scan_chain, user_is_str,
                   discovery_events, scan_j, scan_k, discovered_protocols, hits>>

\* one pass of the loop over the topic layouts in _has_protocol_activity,
\* with what follows it: return True and the append in discover_protocols,
\* the next layout, the next signature, or return False
ProbeTopicsOn(providers) ==
    /\ scan_pc = "loop"
    /\ scan_i <= Len(discovery_events)
    /\ user_is_str /\ discovery_events[scan_i].events # <<>>
    /\ \E w \in providers :
         LET protocol_name == discovery_events[scan_i].name
             event_signatures == discovery_events[scan_i].events
             r == QueryLogsWithChunking(w, "0x0", Latest)
             hit == \E n \in 1..Len(r.requests) : r.requests[n].nonempty
         IN /\ hits' = IF hit
                       THEN hits \cup {[protocol |-> protocol_name,
                                        event_sig |-> event_signatures[scan_j],
                                        layout |-> scan_k,
                                        requests |-> Len(r.requests)]}
                       ELSE hits
            /\ IF HasLogs(r)
               THEN /\ discovered_protocols' =
                          Append(discovered_protocols, protocol_name)
                    /\ scan_i' = scan_i + 1
                    /\ scan_j' = 1
                    /\ scan_k' = 1
               ELSE IF scan_k < NumLayouts
               THEN /\ scan_k' = scan_k + 1
                    /\ UNCHANGED <<discovered_protocols, scan_i, scan_j>>
               ELSE IF scan_j < Len(event_signatures)
               THEN /\ scan_j' = scan_j + 1
                    /\ scan_k' = 1
                    /\ UNCHANGED <<discovered_protocols, scan_i>>
               ELSE /\ scan_i' = scan_i + 1
                    /\ scan_j' = 1
                    /\ scan_k' = 1
                    /\ UNCHANGED discovered_protocols
    /\ UNCHANGED <<nonScanVars, scan_pc, scan_chain, user_is_str,
                   discovery_events>>

\* return discovered_protocols
DiscoverReturn ==
    /\ scan_pc = "loop"
    /\ scan_i > Len(discovery_events)
    /\ scan_pc' = "returned"
    /\ UNCHANGED <<nonScanVars, scan_chain, user_is_str, discovery_events,
                   scan_i, scan_j, scan_k, discovered_protocols, hits>>

(* ------------------------------------------------------------------ *)
(* ChainScanner._query_logs_with_chunking, call by call                 *)
(* ------------------------------------------------------------------ *)
\* the depth at which the interpreter raises RecursionError, above any
\* depth a narrowing provider can drive the recursion to
RecursionLimit == MaxBlock + 4

\* the texts a provider may write block n with
TextsOf(n) == {HexText[n + 1], PaddedText[n + 1]}

\* the ranges a provider may suggest for a request of lo..hi it finds too
\* large: inside the request and strictly narrower
SuggestedRanges(lo, hi) ==
    { sug \in [from : UNION {TextsOf(a) : a \in lo..hi},
               to   : UNION {TextsOf(b) : b \in lo..hi}] :
        /\ Int16(sug.from) <= Int16(sug.to)
        /\ <<Int16(sug.from), Int16(sug.to)>> # <<lo, hi>> }

\* the ranges a provider that need not narrow may suggest for a request of
\* lo..hi: any range inside the request, the request itself included, written
\* as hex() writes it
LooseRanges(lo, hi) ==
    { sug \in [from : {Hex(a) : a \in lo..hi}, to : {Hex(b) : b \in lo..hi}] :
        Int16(sug.from) <= Int16(sug.to) }

\* how a provider may answer: the logs, another error, or "too many results"
\* with a suggested range
AnswerKinds == {"ok", "error", "too_many"}

Frame(from_block, to_block) ==
    [from_block |-> from_block, to_block |-> to_block, stage |-> "request",
     suggested_from |-> "", suggested_to |-> "", all_logs |-> None]

Returned_(logs) == [raised |-> FALSE, logs |-> logs, error |-> ""]
Raised_(error) == [raised |-> TRUE, logs |-> None, error |-> error]

Top == chunk_stack[Len(chunk_stack)]
Pop == SubSeq(chunk_stack, 1, Len(chunk_stack) - 1)
ReplaceTop(f) == [chunk_stack EXCEPT ![Len(chunk_stack)] = f]

\* `from_block != suggested_from`
WantsBefore(f) == f.from_block # f.suggested_from

\* `to_block == "latest" or (to_block != suggested_to)`
WantsAfter(f) == f.to_block = Latest \/ f.to_block # f.suggested_to

BeforeEnd_Overlaps(suggested_from) == Hex(Int16(suggested_from))

\* before_end = hex(int(suggested_from, 16) - 1)
BeforeEnd(suggested_from) == Hex(Int16(suggested_from) - 1)

AfterStart_SameBlock(suggested_to) == Hex(Int16(suggested_to))

\* after_start = hex(int(suggested_to, 16) + 1)
AfterStart(suggested_to) == Hex(Int16(suggested_to) + 1)

\* a further call fits under the recursion limit
CanCall == Len(chunk_stack) < RecursionLimit

\* the frame f, holding all_logs, at `if to_block == "latest" or ...`: the
\* call for the range after the suggested one, or `return all_logs` (also
\* when that call cannot start: its RecursionError is swallowed)
AfterStep(f, all_logs) ==
    IF WantsAfter(f) /\ CanCall
    THEN [stack |-> Append(ReplaceTop([f EXCEPT !.stage = "after",
                                                !.all_logs = all_logs]),
                           Frame(AfterStart(f.suggested_to), f.to_block)),
          ret |-> None]
    ELSE [stack |-> Pop, ret |-> Some(Returned_(all_logs))]

\* the frame f at `if from_block != suggested_from`
BeforeStep(f, all_logs) ==
    IF WantsBefore(f) /\ CanCall
    THEN [stack |-> Append(ReplaceTop([f EXCEPT !.stage = "before",
                                                !.all_logs = all_logs]),
                           Frame(f.from_block, BeforeEnd(f.suggested_from))),
          ret |-> None]
    ELSE AfterStep(f, all_logs)

\* the chains a call is run on: a matching log in every block, or in every
\* block but one
ChunkWorlds == {W \in SUBSET Blocks : Cardinality(W) >= MaxBlock}

ChunkIdle ==
    /\ chunk_world = {}
    /\ chunk_query = None
    /\ chunk_stack = <<>>
    /\ chunk_ret = None
    /\ chunk_requests = <<>>

\* _query_logs_with_chunking(topics, from_block, to_block) is called
ChunkInit ==
    /\ chunk_world \in ChunkWorlds
    /\ \E lo \in Blocks, to \in {Hex(b) : b \in Blocks} \cup {Latest} :
         /\ lo <= BlockOf(to)
         /\ chunk_query = Frame(Hex(lo), to)
    /\ chunk_stack = <<chunk_query>>
    /\ chunk_ret = None
    /\ chunk_requests = <<>>

\* the innermost call makes its request and the provider answers; a provider
\* that narrows suggests a range of SuggestedRanges, one that need not a
\* range of LooseRanges
ChunkRequestFrom(kinds, narrows) ==
    /\ chunk_stack # <<>>
    /\ Top.stage = "request"
    /\ LET f == Top
           lo == Int16(f.from_block)
           hi == BlockOf(f.to_block)
       IN /\ \E kind \in kinds :
               /\ chunk_requests' = Append(chunk_requests,
                      [lo |-> lo, hi |-> hi, depth |-> Len(chunk_stack),
                       leaf |-> kind # "too_many"])
               /\ \/ /\ kind = "ok"
                     /\ chunk_stack' = Pop
                     /\ chunk_ret' = Some(Returned_(Some(SortedSeq(
                           MatchingIn([logs_at |-> chunk_world], lo, hi)))))
                  \/ /\ kind = "error"
                     /\ chunk_stack' = Pop
                     /\ chunk_ret' = Some(Raised_("rpc"))
                  \/ /\ kind = "too_many"
                     /\ hi > lo \/ (~narrows /\ hi = lo)
                     /\ \E sug \in (IF narrows THEN SuggestedRanges(lo, hi)
                                     ELSE LooseRanges(lo, hi)) :
                          IF CanCall
                          THEN /\ chunk_stack' =
                                    Append(ReplaceTop(
                                      [f EXCEPT !.stage = "chunk",
                                                !.suggested_from = sug.from,
                                                !.suggested_to = sug.to]),
                                      Frame(sug.from, sug.to))
                               /\ chunk_ret' = None
                          ELSE /\ chunk_stack' = Pop
                               /\ chunk_ret' = Some(Raised_("recursion"))
    /\ UNCHANGED <<nonChunkVars, chunk_world, chunk_query>>

\* the request, answered by a provider that narrows
ChunkRequestOn(kinds) == ChunkRequestFrom(kinds, TRUE)

\* a recursive call came back to the frame that made it
ChunkResume ==
    /\ chunk_stack # <<>>
    /\ Top.stage \in {"chunk", "before", "after"}
    /\ chunk_ret # None
    /\ LET f == Top
           r == Val(chunk_ret)
           sub == [raised |-> r.raised, logs |-> r.logs]
           next == IF f.stage = "chunk"
                   THEN IF r.raised
                        THEN [stack |-> Pop, ret |-> chunk_ret]
                        ELSE BeforeStep(f, r.logs)
                   ELSE IF f.stage = "before"
                   THEN AfterStep(f, Extend(f.all_logs, sub))
                   ELSE [stack |-> Pop,
                         ret |-> Some(Returned_(Extend(f.all_logs, sub)))]
       IN /\ chunk_stack' = next.stack
          /\ chunk_ret' = next.ret
    /\ UNCHANGED <<nonChunkVars, chunk_world, chunk_query, chunk_requests>>

(* ------------------------------------------------------------------ *)
(* ProtocolRegistry                                                     *)
(* ------------------------------------------------------------------ *)
\* the `name` of a class that has no attribute `name`
NoName == "<no attribute>"

\* the names handler classes are registered with; "" is the name a subclass
\* of BaseProtocolHandler inherits when it sets none
RegNames == {"aave_v3", "lido", ""}

\* the handler classes passed to register
RegistryClasses ==
    [ name             : RegNames \cup {NoName},
      supported_chains : {{1}, {1, 2}},
      discovery_events : {<<>>, <<"Supply">>} ]

\* hasattr(handler_class, "name")
HasAttrName(handler_class) == handler_class.name # NoName

Register_AlwaysAppends(reg, handler_class) ==
    IF ~HasAttrName(handler_class)
    THEN [raised |-> TRUE, handlers |-> reg]
    ELSE [raised |-> FALSE, handlers |-> Append(reg, handler_class)]

\* ProtocolRegistry.register on the dict `reg`: a new key goes last, a key
\* already there keeps its place and gets the new class
Register(reg, handler_class) ==
    IF ~HasAttrName(handler_class)
    THEN [raised |-> TRUE, handlers |-> reg]
    ELSE IF \E i \in 1..Len(reg) : reg[i].name = handler_class.name
    THEN [raised |-> FALSE,
          handlers |-> [i \in 1..Len(reg) |->
                          IF reg[i].name = handler_class.name
                          THEN handler_class ELSE reg[i]]]
    ELSE [raised |-> FALSE, handlers |-> Append(reg, handler_class)]

RegIdle ==
    /\ reg_last = [n \in RegNames |-> None]
    /\ reg_op = None

ProtoIdle == proto_call = None

FindIdle ==
    /\ reg_order = <<>>
    /\ reg_found = None

\* the registry after the protocols package was imported
RegInit ==
    /\ handlers = DefaultHandlers
    /\ reg_last = [n \in RegNames |-> get_handler(n)]
    /\ reg_op = None

\* ProtocolRegistry.register(handler_class)
RegisterHandler ==
    /\ \E handler_class \in RegistryClasses :
         LET r == Register(handlers, handler_class) IN
           /\ handlers' = r.handlers
           /\ reg_last' = IF r.raised THEN reg_last
                          ELSE [reg_last EXCEPT
                                  ![handler_class.name] = Some(handler_class)]
           /\ reg_op' = Some([op |-> "register", arg |-> Some(handler_class),
                              raised |-> r.raised, before |-> handlers])
    /\ UNCHANGED nonRegVars

\* ProtocolRegistry.clear()
RegistryClear ==
    /\ handlers' = <<>>
    /\ reg_last' = [n \in RegNames |-> None]
    /\ reg_op' = Some([op |-> "clear", arg |-> None, raised |-> FALSE,
                       before |-> handlers])
    /\ UNCHANGED nonRegVars

(* ------------------------------------------------------------------ *)
(* ChainScanner._pad_address; a str is the sequence of its characters   *)
(* ------------------------------------------------------------------ *)
\* the hex digits of the longest address tried
MaxDigits == 3

\* zfill(64)
PadWidth == 64

\* the characters addresses are written with
DigitChars == {"0", "1", "a", "A", "f", "F"}
LowerHexChars == {"0", "1", "2", "3", "4", "5", "6", "7", "8", "9",
                  "a", "b", "c", "d", "e", "f"}

\* str.lower() on one character
LowerChar(ch) ==
    CASE ch = "A" -> "a" [] ch = "B" -> "b" [] ch = "C" -> "c"
      [] ch = "D" -> "d" [] ch = "E" -> "e" [] ch = "F" -> "f"
      [] ch = "X" -> "x" [] OTHER -> ch

Lower_KeepsCase(str) == str

\* str.lower()
Lower(str) == [i \in 1..Len(str) |-> LowerChar(str[i])]

\* str.replace("0x", ""): every occurrence, from the left
RECURSIVE Remove0x(_)
Remove0x(str) ==
    IF Len(str) < 2 THEN str
    ELSE IF str[1] = "0" /\ str[2] = "x"
    THEN Remove0x(SubSeq(str, 3, Len(str)))
    ELSE <<str[1]>> \o Remove0x(SubSeq(str, 2, Len(str)))

\* str.zfill(width) of a str without sign
ZFill(str, width) ==
    IF Len(str) >= width THEN str
    ELSE [i \in 1..(width - Len(str)) |-> "0"] \o str

\* ChainScanner._pad_address
PadAddress(address) ==
    <<"0", "x">> \o ZFill(Remove0x(Lower(address)), PadWidth)

\* the addresses tried: "0x" or "0X" and up to MaxDigits hex digits
RECURSIVE DigitStrings(_)
DigitStrings(n) ==
    IF n = 0 THEN {<<>>}
    ELSE LET shorter == DigitStrings(n - 1)
         IN shorter \cup {Append(d, ch) : d \in shorter, ch \in DigitChars}

Addresses ==
    {<<"0", x>> \o d : x \in {"x", "X"}, d \in DigitStrings(MaxDigits)}

PadIdle ==
    /\ pad_in = <<>>
    /\ pad_out = None
    /\ pad_again = None

PadInit ==
    /\ pad_in \in Addresses
    /\ pad_out = None
    /\ pad_again = None

\* padded = _pad_address(address)
Pad ==
    /\ pad_out = None
    /\ pad_out' = Some(PadAddress(pad_in))
    /\ UNCHANGED <<nonPadVars, pad_in, pad_again>>

\* _pad_address(padded)
PadAgain ==
    /\ pad_out # None
    /\ pad_again = None
    /\ pad_again' = Some(PadAddress(Val(pad_out)))
    /\ UNCHANGED <<nonPadVars, pad_in, pad_out>>

(* ---- Spec: any configuration of at most NumChains chains, any answer *)
(* ---- of the provider, any behaviour of the handlers, any price feed   *)
DetectProbe == DetectProbeOn(ProbeAnswers)

ScanChain == ScanChainOn(ProbeAnswers, SUBSET HandlerNames)

TaskFinish == TaskFinishOn(HandlerBehaviours)

Enrich == EnrichOn(PipelineFeeds)

Init ==
    /\ handlers = DefaultHandlers
    /\ num_chains \in 1..NumChains
    /\ AggInit
    /\ RetryIdle
    /\ CacheIdle
    /\ BatchIdle
    /\ ScanIdle
    /\ ChunkIdle
    /\ RegIdle
    /\ PadIdle
    /\ FanIdle
    /\ PriceIdle
    /\ DetIdle
    /\ FindIdle
    /\ ProtoIdle

Next ==
    \/ DetectProbe
    \/ ScanInactive
    \/ ScanChain
    \/ ReturnEmpty
    \/ OpenPool
    \/ Submit
    \/ TaskStart
    \/ TaskFinish
    \/ TaskHang
    \/ Collect
    \/ ClosePool
    \/ Enrich
    \/ BuildSummary

Spec == Init /\ [][Next]_vars

(* ---- SpecPool: NumPoolChains configured chains, all of them active    *)
(* ---- with aave_v3 detected; a task returns its positions, raises or   *)
(* ---- hangs                                                            *)
PoolDetectProbe == DetectProbeOn({"logs"})

PoolScanChain == ScanChainOn({"logs"}, {{"aave_v3"}})

PoolTaskFinish == TaskFinishOn({"ok", "ctor_raises"})

PoolEnrich == EnrichOn({[k \in AllChains \X TokenAddrs |-> MaxPrice]})

PoolInit ==
    /\ handlers = DefaultHandlers
    /\ num_chains = NumPoolChains
    /\ AggInit
    /\ RetryIdle
    /\ CacheIdle
    /\ BatchIdle
    /\ ScanIdle
    /\ ChunkIdle
    /\ RegIdle
    /\ PadIdle
    /\ FanIdle
    /\ PriceIdle
    /\ DetIdle
    /\ FindIdle
    /\ ProtoIdle

PoolNext ==
    \/ PoolDetectProbe
    \/ PoolScanChain
    \/ OpenPool
    \/ Submit
    \/ TaskStart
    \/ PoolTaskFinish
    \/ TaskHang
    \/ Collect
    \/ ClosePool
    \/ PoolEnrich
    \/ BuildSummary

SpecPool == PoolInit /\ [][PoolNext]_vars

(* ---- SpecFanOut: NumFanChains configured chains, all of them active    *)
(* ---- with every handler detected; the chain tasks run one handler at   *)
(* ---- a time, interleaved with each other and with the collecting loop  *)
\* number of configured chains in the scenarios of SpecFanOut
NumFanChains == 3

FanDetectProbe == DetectProbeOn({"logs"})

FanScanChain == ScanChainOn({"logs"}, {HandlerNames})

FanTaskStep == TaskStepOn(HandlerBehaviours)

FanEnrich == EnrichOn({[k \in AllChains \X TokenAddrs |-> MaxPrice]})

FanInit ==
    /\ handlers = DefaultHandlers
    /\ num_chains = NumFanChains
    /\ AggInit
    /\ RetryIdle
    /\ CacheIdle
    /\ BatchIdle
    /\ ScanIdle
    /\ ChunkIdle
    /\ RegIdle
    /\ PadIdle
    /\ FanIdle
    /\ PriceIdle
    /\ DetIdle
    /\ FindIdle
    /\ ProtoIdle

FanNext ==
    \/ FanDetectProbe
    \/ FanScanChain
    \/ OpenPool
    \/ Submit
    \/ TaskStart
    \/ FanTaskStep
    \/ TaskReturn
    \/ TaskHang
    \/ Collect
    \/ ClosePool
    \/ FanEnrich
    \/ BuildSummary

SpecFanOut == FanInit /\ [][FanNext]_vars

(* ---- SpecEnrich: _enrich_positions_with_pricing and the summary on   *)
(* ---- position lists and price maps drawn from bounded sets            *)
\* the largest balance of a position of SpecEnrich
MaxBalance == 2

\* the first position of a list: on chain 1, any combination of the fields
\* the enrichment reads
PositionInputs ==
    { [protocol |-> "lido", chain |-> 1, token |-> tok, balance |-> bal,
       underlying_token |-> ut, underlying_balance |-> ub, usd_value |-> usd,
       claimable_rewards |-> rw] :
        tok \in {"", "steth"}, bal \in 0..MaxBalance,
        ut \in {None, Some("eth")},
        ub \in {None} \cup {Some(b) : b \in 0..MaxBalance},
        usd \in {None, Some(MaxBalance + 1)},
        rw \in {<<>>, << [token |-> "rwd", amount |-> 1, usd_value |-> None] >>,
                << [token |-> "eth", amount |-> 1, usd_value |-> None] >>} }

\* the second position of a list, when there is one: its tokens overlap those
\* of the first one, on the same chain or on another
SecondPositions ==
    { [protocol |-> "aave_v3", chain |-> 1, token |-> "eth", balance |-> 1,
       underlying_token |-> None, underlying_balance |-> None,
       usd_value |-> None, claimable_rewards |-> <<>>],
      [protocol |-> "aave_v3", chain |-> 2, token |-> "steth", balance |-> 1,
       underlying_token |-> Some("eth"), underlying_balance |-> Some(1),
       usd_value |-> None, claimable_rewards |-> <<>>] }

EnrichInputs ==
    {<<p>> : p \in PositionInputs} \cup
    {<<p, q>> : p \in PositionInputs, q \in SecondPositions}

\* the keys a feed may know: those of the tokens, underlying tokens and reward
\* tokens of the positions
KeysOf(positions) ==
    TokensToPrice(positions) \cup
    UNION { {<<positions[i].chain, positions[i].claimable_rewards[j].token>> :
                j \in 1..Len(positions[i].claimable_rewards)} :
            i \in 1..Len(positions) }

\* every feed over those keys: a key is missing or has a price in 0..MaxPrice
FeedsFor(positions) ==
    UNION { [D -> 0..MaxPrice] : D \in SUBSET KeysOf(positions) }

EnrichAny == EnrichObservedOn(FeedsFor(all_positions))

EnrichInit ==
    /\ handlers = DefaultHandlers
    /\ num_chains = 2
    /\ pc = "enrich"
    /\ idx = 1
    /\ active_chains = <<>>
    /\ chain_activities = <<>>
    /\ probes = [c \in Chains |-> <<>>]
    /\ max_workers = 0
    /\ submitted = <<>>
    /\ future = [c \in Chains |-> "none"]
    /\ future_result = [c \in Chains |-> <<>>]
    /\ collected = {}
    /\ all_positions \in EnrichInputs
    /\ prices = <<>>
    /\ summary = None
    /\ nDiscover = 0
    /\ nGetPositions = 0
    /\ nGetPrices = 0
    /\ RetryIdle
    /\ CacheIdle
    /\ BatchIdle
    /\ ScanIdle
    /\ ChunkIdle
    /\ RegIdle
    /\ PadIdle
    /\ FanIdle
    /\ PriceIdle
    /\ DetIdle
    /\ FindIdle
    /\ ProtoIdle

EnrichNext ==
    \/ EnrichAny
    \/ BuildSummary

SpecEnrich == EnrichInit /\ [][EnrichNext]_vars

(* ------------------------------------------------------------------ *)
(* Claims about get_all_positions                                       *)
(* ------------------------------------------------------------------ *)
PosId(p) == <<p.chain, p.protocol>>

Occurrences(s, id) == Cardinality({i \in 1..Len(s) : PosId(s[i]) = id})

Returned == pc = "done"

\* C1: with any set of active chains and any subset of their tasks raising,
\* get_all_positions returns a summary and does not raise, and the summary's
\* positions are those the tasks that did not raise returned, each exactly
\* once, and nothing else.
C1_PartialFailureTolerance ==
    /\ pc # "raised"
    /\ Returned =>
         /\ IsSome(summary)
         /\ LET ps == Val(summary).positions IN
              /\ \A c \in Chains :
                   future[c] = "returned" =>
                     \A i \in 1..Len(future_result[c]) :
                        Occurrences(ps, PosId(future_result[c][i])) = 1
              /\ \A i \in 1..Len(ps) :
                   /\ future[ps[i].chain] = "returned"
                   /\ \E j \in 1..Len(future_result[ps[i].chain]) :
                        PosId(future_result[ps[i].chain][j]) = PosId(ps[i])

\* three active chains, the task of the second raised, those of the first and
\* the third returned positions, and the call returned them
C1_Witness ==
    /\ Returned
    /\ num_chains = 3
    /\ future[2] = "raised"
    /\ future[1] = "returned" /\ future_result[1] # <<>>
    /\ future[3] = "returned" /\ future_result[3] # <<>>
    /\ Len(Val(summary).positions) =
           Len(future_result[1]) + Len(future_result[3])

NoProbeFoundLogs ==
    \A c \in Chains : \A i \in 1..Len(probes[c]) : probes[c][i] # "logs"

\* C2: while the activity probe has found no log on any chain, no protocol
\* discovery, no handler get_positions and no get_prices call is issued, and
\* the call then returns the empty summary: no position, total 0, empty
\* by_chain and by_protocol.
C2_NoActivityNoWork ==
    NoProbeFoundLogs =>
      /\ nDiscover = 0 /\ nGetPositions = 0 /\ nGetPrices = 0
      /\ Returned =>
           /\ IsSome(summary)
           /\ Val(summary).positions = <<>>
           /\ Val(summary).total_usd_value = 0
           /\ DOMAIN Val(summary).by_chain = {}
           /\ DOMAIN Val(summary).by_protocol = {}

\* every chain of the largest configuration was probed, none had activity
\* (one probe failed), and the call returned
C2_Witness ==
    /\ Returned
    /\ num_chains = NumChains
    /\ NoProbeFoundLogs
    /\ \A c \in Chains : Len(probes[c]) = 1
    /\ \E c \in Chains : probes[c][1] = "error"

\* C3: a chain task that never completes cannot block get_all_positions: as
\* long as the call has not returned, it (or a task it waits for) can take a
\* step.
C3_HungTaskCannotBlock == Returned \/ ENABLED Next

\* C4: at most min(number of active chains, 4) chain tasks run at the same
\* time, and exactly one task is submitted per active chain.
C4_BoundedFanOut ==
    /\ Cardinality(Running) <= Min(Len(ActiveActivities), PoolCap)
    /\ \A i, j \in 1..Len(submitted) : submitted[i] = submitted[j] => i = j
    /\ \A i \in 1..Len(submitted) :
         \E k \in 1..Len(ActiveActivities) :
            ActiveActivities[k].chain = submitted[i]
    /\ pc \in {"collect", "enrich", "summary", "done"} =>
         Len(submitted) = Len(ActiveActivities)

\* the pool is full and a submitted task waits for a worker
C4_Witness ==
    /\ Cardinality({c \in Chains : future[c] = "running"}) = PoolCap
    /\ \E c \in Chains : future[c] = "queued"
    /\ Len(ActiveActivities) > PoolCap

RECURSIVE MapSum(_)
MapSum(m) ==
    IF DOMAIN m = {} THEN 0
    ELSE LET k == CHOOSE x \in DOMAIN m : TRUE
         IN m[k] + MapSum([x \in DOMAIN m \ {k} |-> m[x]])

UsdValues(ps) ==
    [i \in 1..Len(ps) |->
        IF ps[i].usd_value = None THEN 0 ELSE ps[i].usd_value[1]]

\* C5: in a returned summary, total_usd_value is the sum of the positions'
\* usd_value (absent counted as 0), the by_chain values and the by_protocol
\* values each sum to total_usd_value, and the keys of by_chain / by_protocol
\* are exactly the chains / protocols of the positions.
C5_SummaryPartitionsTotal ==
    IsSome(summary) =>
      LET s == Val(summary) IN
        /\ s.total_usd_value = SeqSum(UsdValues(s.positions))
        /\ MapSum(s.by_chain) = s.total_usd_value
        /\ MapSum(s.by_protocol) = s.total_usd_value
        /\ DOMAIN s.by_chain =
             {s.positions[i].chain : i \in 1..Len(s.positions)}
        /\ DOMAIN s.by_protocol =
             {s.positions[i].protocol : i \in 1..Len(s.positions)}

\* a summary over two chains and two protocols with an unpriced position
C5_Witness ==
    /\ Returned
    /\ IsSome(summary)
    /\ Val(summary).total_usd_value > 0
    /\ Cardinality(DOMAIN Val(summary).by_chain) >= 2
    /\ Cardinality(DOMAIN Val(summary).by_protocol) >= 2
    /\ \E i \in 1..Len(Val(summary).positions) :
          Val(summary).positions[i].usd_value = None

Enriched == pc \in {"summary", "done"}

NeedsFallback(p) ==
    /\ IsSome(p.underlying_token)
    /\ PriceOf(prices, <<p.chain, Val(p.underlying_token)>>) = 0
    /\ PriceOf(prices, <<p.chain, p.token>>) > 0

\* C6: after enrichment, a position with an underlying token whose price is
\* unavailable (zero or missing) and whose primary token has a price > 0 has
\* usd_value = balance * primary token price.
C6_PricingFallback ==
    Enriched =>
      \A i \in 1..Len(all_positions) :
         NeedsFallback(all_positions[i]) =>
           all_positions[i].usd_value =
             Some(all_positions[i].balance *
                  PriceOf(prices, <<all_positions[i].chain,
                                    all_positions[i].token>>))

\* an enriched position with a non-zero underlying balance, no underlying
\* price and a primary price, priced by its primary balance
C6_Witness ==
    /\ Enriched
    /\ \E i \in 1..Len(all_positions) :
         /\ NeedsFallback(all_positions[i])
         /\ Truthy(all_positions[i].underlying_balance)
         /\ all_positions[i].balance > 0
         /\ all_positions[i].usd_value = Some(all_positions[i].balance)

(* ------------------------------------------------------------------ *)
(* SpecRetry: one run of a retry wrapper                                *)
(* ------------------------------------------------------------------ *)
\* no get_all_positions call is in progress
AggIdle ==
    /\ handlers = DefaultHandlers
    /\ num_chains = 1
    /\ pc = "idle"
    /\ idx = 1
    /\ active_chains = <<>>
    /\ chain_activities = <<>>
    /\ probes = [c \in Chains |-> <<>>]
    /\ max_workers = 0
    /\ submitted = <<>>
    /\ future = [c \in Chains |-> "none"]
    /\ future_result = [c \in Chains |-> <<>>]
    /\ collected = {}
    /\ all_positions = <<>>
    /\ prices = <<>>
    /\ summary = None
    /\ nDiscover = 0
    /\ nGetPositions = 0
    /\ nGetPrices = 0

RetrySpecInit ==
    /\ AggIdle
    /\ RetryInit
    /\ CacheIdle
    /\ BatchIdle
    /\ ScanIdle
    /\ ChunkIdle
    /\ RegIdle
    /\ PadIdle
    /\ FanIdle
    /\ PriceIdle
    /\ DetIdle
    /\ FindIdle
    /\ ProtoIdle

RetryNext ==
    \/ NotConnected
    \/ Succeed
    \/ Fail
    \/ Sleep

SpecRetry == RetrySpecInit /\ [][RetryNext]_vars

AllFailed(log) == \A i \in 1..Len(log) : ~log[i].ok

CacheSpecInit ==
    /\ AggIdle
    /\ RetryIdle
    /\ CacheInit
    /\ BatchIdle
    /\ ScanIdle
    /\ ChunkIdle
    /\ RegIdle
    /\ PadIdle
    /\ FanIdle
    /\ PriceIdle
    /\ DetIdle
    /\ FindIdle
    /\ ProtoIdle

CacheNext ==
    \/ CacheSet
    \/ CacheGet
    \/ CacheClear
    \/ CleanupExpired
    \/ Tick

SpecCache == CacheSpecInit /\ [][CacheNext]_vars

\* the latest get looked up a key that was set, since the last clear, with a
\* supplied ttl
GotAfterSetWithTtl ==
    /\ IsSome(last_get)
    /\ IsSome(Val(last_get).set)
    /\ IsSome(Val(Val(last_get).set).ttl)

\* C8: after set(m, p, v, ttl=T) with any T >= 0, get(m, p) returns v while
\* the time elapsed since the set is <= T and absent once it is > T.
C8_TtlValidity ==
    GotAfterSetWithTtl =>
      LET g == Val(last_get)
          st == Val(g.set)
          T == Val(st.ttl)
      IN /\ (g.at - st.at <= T) => g.result = Some(st.value)
         /\ (g.at - st.at > T) => g.result = None

\* the same for a supplied T >= 1, and for T = 0 or no ttl argument with the
\* default TTL in the place of T: this is what the code does
CacheTtlValidityAsCoded ==
    (IsSome(last_get) /\ IsSome(Val(last_get).set)) =>
      LET g == Val(last_get)
          st == Val(g.set)
          T == IF Truthy(st.ttl) THEN Val(st.ttl) ELSE default_ttl
      IN /\ (g.at - st.at <= T) => g.result = Some(st.value)
         /\ (g.at - st.at > T) => g.result = None

(* ------------------------------------------------------------------ *)
(* SpecBatch: any sequence of add_call, execute and clear on one        *)
(* MulticallBatcher                                                     *)
(* ------------------------------------------------------------------ *)
BatchSpecInit ==
    /\ AggIdle
    /\ RetryIdle
    /\ CacheIdle
    /\ BatchInit
    /\ ScanIdle
    /\ ChunkIdle
    /\ RegIdle
    /\ PadIdle
    /\ FanIdle
    /\ PriceIdle
    /\ DetIdle
    /\ FindIdle
    /\ ProtoIdle

BatchNext ==
    \/ AddCall
    \/ Execute
    \/ BatchClear

SpecBatch == BatchSpecInit /\ [][BatchNext]_vars

\* every attempt of the i-th call of the latest execute failed
AllAttemptsFail(e, i) == e.answers[i] = 0

\* C9: execute does not raise and returns one slot per queued call, in the
\* order of the queue; every queued call is executed, also those after a
\* failing one; the slot of a call whose max_retries + 1 attempts all fail
\* is None, and every other slot holds its own call's result.
C9_BatchSlots ==
    IsSome(last_execute) =>
      LET e == Val(last_execute) IN
        /\ ~e.raised
        /\ Len(e.results) = Len(e.queue)
        /\ Len(e.log) = Len(e.queue)
        /\ \A i \in 1..Len(e.queue) :
             /\ e.log[i].call = e.queue[i]
             /\ e.log[i].attempts >= 1
             /\ e.log[i].attempts <= batch_config.max_retries + 1
             /\ AllAttemptsFail(e, i) =>
                   /\ e.results[i] = None
                   /\ e.log[i].attempts = batch_config.max_retries + 1
             /\ ~AllAttemptsFail(e, i) =>
                   /\ e.results[i] = Some(CallResult(e.queue[i]))
                   /\ e.log[i].attempts = e.answers[i]

\* three different calls were queued; the second one exhausted its retries
\* and the calls around it returned
C9_Witness ==
    /\ IsSome(last_execute)
    /\ batch_config.max_retries = MaxBatchRetries
    /\ LET e == Val(last_execute) IN
         /\ Len(e.queue) = 3
         /\ e.queue[2] # e.queue[3]
         /\ e.results = <<Some(CallResult(e.queue[1])), None,
                          Some(CallResult(e.queue[3]))>>
    /\ batch_calls = <<>>

(* ------------------------------------------------------------------ *)
(* SpecScan: calls of discover_protocols for any wallet and configured  *)
(* chain, against any provider                                          *)
(* ------------------------------------------------------------------ *)
\* the shipped registry, alone or with a handler without discovery events
ScanRegistries ==
    { DefaultHandlers,
      DefaultHandlers \o << [name |-> "custom", supported_chains |-> {2},
                             discovery_events |-> <<>>] >> }

ScanSpecInit ==
    /\ handlers \in ScanRegistries
    /\ num_chains = 2
    /\ pc = "idle"
    /\ idx = 1
    /\ active_chains = <<>>
    /\ chain_activities = <<>>
    /\ probes = [c \in Chains |-> <<>>]
    /\ max_workers = 0
    /\ submitted = <<>>
    /\ future = [c \in Chains |-> "none"]
    /\ future_result = [c \in Chains |-> <<>>]
    /\ collected = {}
    /\ all_positions = <<>>
    /\ prices = <<>>
    /\ summary = None
    /\ nDiscover = 0
    /\ nGetPositions = 0
    /\ nGetPrices = 0
    /\ RetryIdle
    /\ CacheIdle
    /\ BatchIdle
    /\ ScanIdle
    /\ ChunkIdle
    /\ RegIdle
    /\ PadIdle
    /\ FanIdle
    /\ PriceIdle
    /\ DetIdle
    /\ FindIdle
    /\ ProtoIdle

ProbeTopics == ProbeTopicsOn(Providers)

ScanNext ==
    \/ DiscoverStart
    \/ NoProbe
    \/ ProbeTopics
    \/ DiscoverReturn

SpecScan == ScanSpecInit /\ [][ScanNext]_vars

InList(x, seq) == \E n \in 1..Len(seq) : seq[n] = x

ScanAgreesWithPipeline ==
    scan_pc = "returned" =>
      discovered_protocols =
        DiscoverProtocols(scan_chain, {h.protocol : h \in hits})

(* ------------------------------------------------------------------ *)
(* scan_chain inside the pipeline (Spec)                                *)
(* ------------------------------------------------------------------ *)
\* scan_chain ran for the chain: its own probe is the chain's second one
ScanChainRan(c) == Len(probes[c]) = 2

\* C11: when scan_chain's activity probe is false (no log, a failed request
\* or a malformed answer), the ChainActivity it returns has has_activity
\* FALSE and no protocol, and discover_protocols is not called: the calls of
\* discover_protocols are as many as the scan_chain probes that found logs.
C11_ScanChainShortCircuit ==
    /\ \A k \in 1..Len(chain_activities) :
         LET a == chain_activities[k] IN
           (ScanChainRan(a.chain) /\ probes[a.chain][2] # "logs") =>
              a = ChainActivity(a.chain, FALSE, <<>>)
    /\ nDiscover =
         Cardinality({c \in Chains : ScanChainRan(c) /\ probes[c][2] = "logs"})

\* a chain was in the active set, the probe of its scan_chain then failed and
\* its activity came back empty, while another chain was discovered
C11_Witness ==
    /\ pc = "select"
    /\ nDiscover = 1
    /\ \E k \in 1..Len(chain_activities) :
         LET a == chain_activities[k] IN
           /\ probes[a.chain] = <<"logs", "error">>
           /\ a = ChainActivity(a.chain, FALSE, <<>>)

(* ------------------------------------------------------------------ *)
(* SpecChunk: one call of _query_logs_with_chunking against a provider  *)
(* whose suggested ranges lie inside the request and are narrower       *)
(* ------------------------------------------------------------------ *)
ChunkSpecInit ==
    /\ AggIdle
    /\ RetryIdle
    /\ CacheIdle
    /\ BatchIdle
    /\ ScanIdle
    /\ ChunkInit
    /\ RegIdle
    /\ PadIdle
    /\ FanIdle
    /\ PriceIdle
    /\ DetIdle
    /\ FindIdle
    /\ ProtoIdle

ChunkRequest == ChunkRequestOn(AnswerKinds)

ChunkNext ==
    \/ ChunkRequest
    \/ ChunkResume

SpecChunk == ChunkSpecInit /\ [][ChunkNext]_vars

SpecChunkFair == SpecChunk /\ WF_vars(ChunkNext)

\* the outermost call has returned or raised
ChunkDone == chunk_stack = <<>>

\* the blocks of the outermost call's range
QueryWidth == BlockOf(chunk_query.to_block) - Int16(chunk_query.from_block) + 1

\* no call of the recursion ended in a RecursionError
NoRecursionError == chunk_ret # None => Val(chunk_ret).error # "recursion"

\* C12: against a provider that answers a too-large request with a range
\* inside the request and strictly narrower, and never finds a request of
\* one block or none too large, the recursion is never deeper than the
\* blocks of the outermost range, makes at most three requests per block,
\* never exhausts the interpreter's stack, and the outermost call ends.
C12_ChunkingTerminates ==
    /\ [](/\ Len(chunk_stack) <= QueryWidth
          /\ Len(chunk_requests) <= 3 * QueryWidth - 2
          /\ NoRecursionError)
    /\ <>ChunkDone

\* a call over all blocks returned after the deepest recursion and the most
\* requests the range allows
C12_Witness ==
    /\ ChunkDone
    /\ QueryWidth = MaxBlock + 1
    /\ ~Val(chunk_ret).raised
    /\ Len(chunk_requests) = 3 * QueryWidth - 2
    /\ \E n \in 1..Len(chunk_requests) : chunk_requests[n].depth = QueryWidth

(* ------------------------------------------------------------------ *)
(* SpecChunkAnswered: the same call when the provider answers every     *)
(* request, with the logs or with "too many results"                    *)
(* ------------------------------------------------------------------ *)
ChunkAnswered == ChunkRequestOn({"ok", "too_many"})

ChunkAnsweredNext ==
    \/ ChunkAnswered
    \/ ChunkResume

SpecChunkAnswered == ChunkSpecInit /\ [][ChunkAnsweredNext]_vars

\* the blocks of a request
RangeOf(req) == req.lo..req.hi

\* the requests that were not split further: here, answered with logs
LeafRequests == {n \in 1..Len(chunk_requests) : chunk_requests[n].leaf}

RegSpecInit ==
    /\ RegInit
    /\ num_chains = 2
    /\ pc = "idle"
    /\ idx = 1
    /\ active_chains = <<>>
    /\ chain_activities = <<>>
    /\ probes = [c \in Chains |-> <<>>]
    /\ max_workers = 0
    /\ submitted = <<>>
    /\ future = [c \in Chains |-> "none"]
    /\ future_result = [c \in Chains |-> <<>>]
    /\ collected = {}
    /\ all_positions = <<>>
    /\ prices = <<>>
    /\ summary = None
    /\ nDiscover = 0
    /\ nGetPositions = 0
    /\ nGetPrices = 0
    /\ RetryIdle
    /\ CacheIdle
    /\ BatchIdle
    /\ ScanIdle
    /\ ChunkIdle
    /\ PadIdle
    /\ FanIdle
    /\ PriceIdle
    /\ DetIdle
    /\ FindIdle
    /\ ProtoIdle

RegNext ==
    \/ RegisterHandler
    \/ RegistryClear

SpecRegistry == RegSpecInit /\ [][RegNext]_vars

\* the class has no name: no attribute `name`, or the empty name of
\* BaseProtocolHandler, which BaseProtocolHandler.__init__ rejects with
\* "must define 'name' attribute"
HasNoName(handler_class) == handler_class.name \in {NoName, ""}

\* C14: get_handler(n) is the class of the latest register with name n that
\* did not raise since the last clear, and None when there was none; a
\* register of a class that has no name raises and leaves the registry as
\* it was.
C14_RegisterGetHandler ==
    /\ \A n \in RegNames : get_handler(n) = reg_last[n]
    /\ (/\ reg_op # None
        /\ Val(reg_op).op = "register"
        /\ HasNoName(Val(Val(reg_op).arg))) =>
          /\ Val(reg_op).raised
          /\ handlers = Val(reg_op).before

\* the same with "has no name" read as "has no attribute `name`": this is
\* what the code does
RegisterGetHandlerAsCoded ==
    /\ \A n \in RegNames : get_handler(n) = reg_last[n]
    /\ (/\ reg_op # None
        /\ Val(reg_op).op = "register"
        /\ ~HasAttrName(Val(Val(reg_op).arg))) =>
          /\ Val(reg_op).raised
          /\ handlers = Val(reg_op).before

\* the classes get_handler can return: what is registered
Registered == {Val(reg_last[n]) : n \in {m \in RegNames : reg_last[m] # None}}

SupportingChain(c) == {h \in Registered : c \in h.supported_chains}

\* the chains asked about: the configured ones and one no handler supports
AskedChains == 1..(num_chains + 1)

\* C15: in every registry state and for every chain c,
\* get_handlers_for_chain(c) holds, once each, exactly the registered classes
\* whose supported_chains contains c, and get_discovery_events(c) has one
\* entry per such class, under its name and holding its discovery_events.
C15_HandlersForChain ==
    \A c \in AskedChains :
      LET hs == get_handlers_for_chain(c)
          evs == get_discovery_events(c)
      IN /\ {hs[i] : i \in 1..Len(hs)} = SupportingChain(c)
         /\ Len(hs) = Cardinality(SupportingChain(c))
         /\ Len(evs) = Cardinality(SupportingChain(c))
         /\ \A h \in SupportingChain(c) :
              \E i \in 1..Len(evs) :
                /\ evs[i] = [name |-> h.name, events |-> h.discovery_events]
                /\ \A j \in 1..Len(evs) : evs[j].name = h.name => j = i

\* a class was registered over another of the same name, changing the
\* chains and events of that name; three classes support chain 1, two of
\* them chain 2
C15_Witness ==
    /\ reg_op # None
    /\ Val(reg_op).op = "register"
    /\ ~Val(reg_op).raised
    /\ Len(Val(reg_op).before) = Len(handlers)
    /\ Val(reg_op).before # handlers
    /\ Len(get_handlers_for_chain(1)) = 3
    /\ Len(get_handlers_for_chain(2)) = 2
    /\ Len(get_discovery_events(2)) = 2

(* ------------------------------------------------------------------ *)
(* SpecPad: _pad_address on an address, then on its own result          *)
(* ------------------------------------------------------------------ *)
PadSpecInit ==
    /\ AggIdle
    /\ RetryIdle
    /\ CacheIdle
    /\ BatchIdle
    /\ ScanIdle
    /\ ChunkIdle
    /\ RegIdle
    /\ PadInit
    /\ FanIdle
    /\ PriceIdle
    /\ DetIdle
    /\ FindIdle
    /\ ProtoIdle

PadNext ==
    \/ Pad
    \/ PadAgain

SpecPad == PadSpecInit /\ [][PadNext]_vars

\* the value of a hex digit, in either case
DigitValue(ch) ==
    CASE ch = "0" -> 0 [] ch = "1" -> 1 [] ch = "2" -> 2 [] ch = "3" -> 3
      [] ch = "4" -> 4 [] ch = "5" -> 5 [] ch = "6" -> 6 [] ch = "7" -> 7
      [] ch = "8" -> 8 [] ch = "9" -> 9
      [] ch \in {"a", "A"} -> 10 [] ch \in {"b", "B"} -> 11
      [] ch \in {"c", "C"} -> 12 [] ch \in {"d", "D"} -> 13
      [] ch \in {"e", "E"} -> 14 [] ch \in {"f", "F"} -> 15

\* the number a string of hex digits writes
RECURSIVE HexValue(_)
HexValue(digits) ==
    IF digits = <<>> THEN 0
    ELSE 16 * HexValue(SubSeq(digits, 1, Len(digits) - 1))
           + DigitValue(digits[Len(digits)])

DigitsOf(str) == SubSeq(str, 3, Len(str))

\* C16: the padded address is "0x" and exactly 64 lower-case hex characters
\* that write the same number as the address, and padding it again gives
\* the same string.
C16_PadExactIdempotent ==
    /\ pad_out # None =>
         LET out == Val(pad_out) IN
           /\ Len(out) = PadWidth + 2
           /\ out[1] = "0" /\ out[2] = "x"
           /\ \A i \in 3..Len(out) : out[i] \in LowerHexChars
           /\ HexValue(DigitsOf(out)) = HexValue(DigitsOf(pad_in))
    /\ pad_again # None => pad_again = pad_out

\* an address in upper case with the longest digit string was padded twice
C16_Witness ==
    /\ pad_again # None
    /\ pad_in[2] = "X"
    /\ Len(pad_in) = MaxDigits + 2
    /\ pad_in[3] = "F" /\ pad_in[Len(pad_in)] = "A"

(* ------------------------------------------------------------------ *)
(* The backoff schedule (SpecRetry)                                     *)
(* ------------------------------------------------------------------ *)
\* the delays of RetryConfig(base_delay=1, exponential_base=2, max_delay=30)
DefaultSchedule == <<1, 2, 4, 8, 16, 30, 30>>

IsDefaultSchedule(cfg) ==
    /\ cfg.base_delay = DefaultBaseDelay
    /\ cfg.exponential_base = DefaultExponentialBase
    /\ cfg.max_delay = DefaultMaxDelay

\* base_delay * exponential_base^i by repeated multiplication
RECURSIVE Grown(_, _)
Grown(cfg, i) == IF i = 0 THEN cfg.base_delay
                 ELSE cfg.exponential_base * Grown(cfg, i - 1)

\* C17: the k-th sleep follows the failed attempt of index k - 1, which is
\* not the final one, and lasts min(base_delay * exponential_base^(k-1),
\* max_delay); there is no sleep after a success or after the final attempt;
\* the default schedule is 1, 2, 4, 8, 16, 30, 30.
C17_BackoffSchedule ==
    /\ \A k \in 1..Len(sleeps) :
         /\ k <= config.max_retries
         /\ k <= Len(call_log) /\ ~call_log[k].ok
         /\ sleeps[k] = IF Grown(config, k - 1) <= config.max_delay
                        THEN Grown(config, k - 1) ELSE config.max_delay
         /\ (IsDefaultSchedule(config) /\ k <= Len(DefaultSchedule)) =>
               sleeps[k] = DefaultSchedule[k]
    /\ retry_pc = "call" => Len(sleeps) = Len(call_log)
    /\ retry_pc \in {"sleep", "returned"} => Len(sleeps) = Len(call_log) - 1
    /\ (retry_pc = "raised" /\ connected) => Len(sleeps) = config.max_retries

\* seven failures with the default schedule, each followed by its sleep, and
\* then a success that is followed by none
C17_Witness ==
    /\ retry_pc = "returned"
    /\ IsDefaultSchedule(config)
    /\ sleeps = DefaultSchedule
    /\ Len(call_log) = Len(DefaultSchedule) + 1

SubmittedChains == {submitted[i] : i \in 1..Len(submitted)}

Resolved(c) == future[c] \in {"returned", "raised"}

\* C18: in get_all_positions the pricing enrichment and the construction of
\* the summary start only after every submitted chain task has resolved
\* (returned or raised); while a chain task is queued, running or blocked,
\* no price has been fetched and no summary exists.
C18_EnrichAfterAllResolved ==
    /\ pc \in {"enrich", "summary", "done"} =>
         \A c \in SubmittedChains : Resolved(c) /\ c \in collected
    /\ (\E c \in SubmittedChains : ~Resolved(c)) =>
         /\ summary = None
         /\ nGetPrices = 0
         /\ prices = <<>>
    /\ Running # {} => pc \in {"submit", "collect"}

C18_Witness ==
    /\ pc = "summary"
    /\ Len(submitted) = 3
    /\ future[submitted[1]] = "raised"
    /\ future[submitted[2]] = "returned"
    /\ future[submitted[3]] = "returned"
    /\ nGetPrices > 0

(* ------------------------------------------------------------------ *)
(* The result lists of the fan-out (SpecFanOut)                         *)
(* ------------------------------------------------------------------ *)
\* the orders in which the chains of S can have been collected
Orders(S) ==
    {o \in [1..Cardinality(S) -> S] : \A i, j \in DOMAIN o : o[i] = o[j] => i = j}

\* future_result of the chains of `order`, one whole list after the other
RECURSIVE ResultsInOrder(_)
ResultsInOrder(order) ==
    IF Len(order) = 0 THEN <<>>
    ELSE ResultsInOrder(SubSeq(order, 1, Len(order) - 1))
           \o future_result[order[Len(order)]]

CollectedReturned == {c \in collected : future[c] = "returned"}

\* C19: whatever the interleaving of the chain tasks and the collecting loop,
\* a chain task appends only to its own list and only positions of its own
\* chain, the shared list of get_all_positions changes only in a round of the
\* collecting loop (and in the enrichment after it), and until the enrichment
\* it is the whole results of the collected tasks that returned, one after
\* the other in some order: nothing of a task that raised or is still
\* running, nothing lost, nothing twice.
C19_NoSharedBufferRace ==
    /\ [](/\ \A c \in Chains :
               \A i \in 1..Len(task_positions[c]) :
                  task_positions[c][i].chain = c
          /\ pc \in {"submit", "collect", "enrich"} =>
               \E order \in Orders(CollectedReturned) :
                  all_positions = ResultsInOrder(order))
    /\ [][/\ all_positions' # all_positions =>
               /\ task_positions' = task_positions
               /\ future' = future
               /\ \/ pc = "collect" /\ collected' # collected
                  \/ pc = "enrich"
          /\ \A c \in Chains :
               task_positions'[c] # task_positions[c] =>
                 /\ future[c] = "running"
                 /\ \A d \in Chains \ {c} :
                      task_positions'[d] = task_positions[d]
                 /\ SubSeq(task_positions'[c], 1, Len(task_positions[c]))
                      = task_positions[c]]_vars

\* three tasks ran interleaved; the task of chain 1 had appended the
\* positions of its first handler when the constructor of its second handler
\* raised, and the other two were collected in the reverse order of their
\* submission
C19_Witness ==
    /\ pc = "enrich"
    /\ future[1] = "raised" /\ task_positions[1] # <<>>
    /\ future[2] = "returned" /\ future[3] = "returned"
    /\ all_positions = future_result[3] \o future_result[2]
    /\ future_result[2] # <<>>

(* ------------------------------------------------------------------ *)
(* Failure isolation between the handlers of a chain (SpecFanOut)       *)
(* ------------------------------------------------------------------ *)
\* the positions of the handlers of protocols[1..n] that returned, in the
\* order of the list
RECURSIVE PositionsOfOk(_, _, _, _)
PositionsOfOk(chain, protocols, log, n) ==
    IF n = 0 THEN <<>>
    ELSE PositionsOfOk(chain, protocols, log, n - 1)
           \o (IF log[n] = "ok" THEN HandlerPositions(protocols[n], chain)
               ELSE <<>>)

\* C20: a call of _get_chain_positions that has ended did not raise, ran the
\* handler of every protocol of its list also when the handler of one of them
\* raised (in its constructor or in get_positions), and returned the
\* positions of the handlers that did not raise, in the order of the list.
C20_ProtocolFailureIsolation ==
    \A c \in Chains :
       Resolved(c) =>
         /\ future[c] = "returned"
         /\ Len(task_log[c]) = Len(ProtocolsOf(c))
         /\ future_result[c] =
              PositionsOfOk(c, ProtocolsOf(c), task_log[c], Len(task_log[c]))

\* what the code does: an error of get_positions is isolated as C20 says; an
\* error of a handler's constructor ends the call with that error, and the
\* handlers after it are not run
ProtocolFailureIsolationAsCoded ==
    \A c \in Chains :
       LET log == task_log[c]
           ctor == {i \in 1..Len(log) : log[i] = "ctor_raises"}
       IN /\ future[c] = "raised" <=> ctor # {}
          /\ ctor \subseteq {Len(log)}
          /\ future[c] = "returned" =>
               /\ Len(log) = Len(ProtocolsOf(c))
               /\ future_result[c] =
                    PositionsOfOk(c, ProtocolsOf(c), log, Len(log))

\* get_positions of the first handler of chain 1 raised, and the task still
\* returned the positions of the second one
GetPositionsErrorIsolated ==
    /\ future[1] = "returned"
    /\ task_log[1] = <<"get_raises", "ok">>
    /\ future_result[1] # <<>>

(* ------------------------------------------------------------------ *)
(* The pricing rules of the enrichment (SpecEnrich)                     *)
(* ------------------------------------------------------------------ *)
UnderlyingPrice(p) == PriceOf(prices, <<p.chain, Val(p.underlying_token)>>)

HasPricedUnderlying(p) ==
    /\ IsSome(p.underlying_token)
    /\ IsSome(p.underlying_balance)
    /\ UnderlyingPrice(p) > 0

\* C21: after enrichment, a position with an underlying token whose price is
\* available (> 0) has usd_value = underlying_balance * underlying price, for
\* every underlying balance, zero included, and never a value computed from
\* the balance of the primary token.
C21_UnderlyingPricingRule ==
    Enriched =>
      \A i \in 1..Len(all_positions) :
         HasPricedUnderlying(all_positions[i]) =>
           all_positions[i].usd_value =
             Some(Val(all_positions[i].underlying_balance)
                    * UnderlyingPrice(all_positions[i]))

\* what the code does: the rule holds for the underlying balances that are
\* not zero; `position.underlying_balance` is tested for truth, and
\* Decimal("0") is false
UnderlyingPricingRuleAsCoded ==
    Enriched =>
      \A i \in 1..Len(all_positions) :
         (HasPricedUnderlying(all_positions[i])
            /\ Truthy(all_positions[i].underlying_balance)) =>
           all_positions[i].usd_value =
             Some(Val(all_positions[i].underlying_balance)
                    * UnderlyingPrice(all_positions[i]))

\* a position with underlying balance 0 and a priced underlying token that
\* was priced by the balance of its primary token
ZeroUnderlyingPricedByPrimary ==
    /\ Enriched
    /\ \E i \in 1..Len(all_positions) :
         LET p == all_positions[i] IN
           /\ HasPricedUnderlying(p)
           /\ p.underlying_balance = Some(0)
           /\ p.balance > 0
           /\ PriceOf(prices, <<p.chain, p.token>>) > 0
           /\ p.usd_value = Some(p.balance * PriceOf(prices, <<p.chain, p.token>>))

\* the pair the value of a position is computed from first
PricedBy(p) ==
    IF IsSome(p.underlying_token) THEN <<p.chain, Val(p.underlying_token)>>
    ELSE <<p.chain, p.token>>

RewardsOf(p) == {p.claimable_rewards[j] : j \in 1..Len(p.claimable_rewards)}

\* C22: enriching a non-empty list makes exactly one get_prices call; the
\* pairs it asks for contain, for every position, the pair of the underlying
\* token when there is one and of the primary token otherwise, and the pair of
\* every reward token, so that every reward whose token has a price at the
\* pricing service ends with usd_value = amount * price.
C22_RequestedPriceSet ==
    (Enriched /\ all_positions # <<>>) =>
      /\ nGetPrices = 1
      /\ IsSome(price_request)
      /\ \A i \in 1..Len(all_positions) :
           LET p == all_positions[i] IN
             /\ PricedBy(p) \in Val(price_request)
             /\ \A r \in RewardsOf(p) :
                  /\ <<p.chain, r.token>> \in Val(price_request)
                  /\ PriceOf(price_feed, <<p.chain, r.token>>) > 0 =>
                       r.usd_value =
                         Some(r.amount * PriceOf(price_feed, <<p.chain, r.token>>))

\* what the code does: one call, for the pairs of the primary and underlying
\* tokens of the positions only; a reward gets a value when its token is also
\* one of those
RequestedPriceSetAsCoded ==
    (Enriched /\ all_positions # <<>>) =>
      /\ nGetPrices = 1
      /\ price_request =
           Some(UNION { {<<all_positions[i].chain, all_positions[i].token>>,
                         PricedBy(all_positions[i])} :
                        i \in 1..Len(all_positions) })
      /\ \A i \in 1..Len(all_positions) :
           \A r \in RewardsOf(all_positions[i]) :
              LET key == <<all_positions[i].chain, r.token>> IN
                r.usd_value =
                  IF key \in Val(price_request) /\ PriceOf(price_feed, key) > 0
                  THEN Some(r.amount * PriceOf(price_feed, key))
                  ELSE None

\* a reward whose token is priced by the service and was not asked for
RewardTokenNotRequested ==
    /\ Enriched
    /\ \E i \in 1..Len(all_positions) :
         \E r \in RewardsOf(all_positions[i]) :
            /\ PriceOf(price_feed, <<all_positions[i].chain, r.token>>) > 0
            /\ <<all_positions[i].chain, r.token>> \notin Val(price_request)
            /\ r.usd_value = None

\* neither the pair a position is priced by nor its fallback pair has a price
Unpriced(p) ==
    /\ PriceOf(prices, PricedBy(p)) = 0
    /\ PriceOf(prices, <<p.chain, p.token>>) = 0

\* C23: after enrichment, a position for which no applicable price is
\* available has no usd_value, whatever its handler had put in it, and a
\* reward whose token has no available price has no usd_value.
C23_UnpricedStaysAbsent ==
    Enriched =>
      \A i \in 1..Len(all_positions) :
         LET p == all_positions[i] IN
           /\ Unpriced(p) => p.usd_value = None
           /\ \A r \in RewardsOf(p) :
                PriceOf(price_feed, <<p.chain, r.token>>) = 0 =>
                   r.usd_value = None

\* what the code does for rewards, which the handlers of the model create
\* without a value: no price, no value
UnpricedRewardStaysAbsent ==
    Enriched =>
      \A i \in 1..Len(all_positions) :
         \A r \in RewardsOf(all_positions[i]) :
            PriceOf(price_feed, <<all_positions[i].chain, r.token>>) = 0 =>
               r.usd_value = None

\* a position without any price that still carries the value its handler
\* had put in it
UnpricedKeepsHandlerValue ==
    /\ Enriched
    /\ \E i \in 1..Len(all_positions) :
         /\ Unpriced(all_positions[i])
         /\ all_positions[i].usd_value = Some(MaxBalance + 1)

(* ------------------------------------------------------------------ *)
(* SpecChunkLoose: _query_logs_with_chunking against a provider that    *)
(* may suggest the request itself                                       *)
(* ------------------------------------------------------------------ *)
ChunkLooseRequest == ChunkRequestFrom({"ok", "too_many"}, FALSE)

ChunkLooseNext ==
    \/ ChunkLooseRequest
    \/ ChunkResume

SpecChunkLoose == ChunkSpecInit /\ [][ChunkLooseNext]_vars

\* request n was found too large and the range suggested for it was the
\* request itself: the next request is the same one, one call deeper
Reissued(n) ==
    /\ n < Len(chunk_requests)
    /\ ~chunk_requests[n].leaf
    /\ chunk_requests[n + 1].depth = chunk_requests[n].depth + 1
    /\ chunk_requests[n + 1].lo = chunk_requests[n].lo
    /\ chunk_requests[n + 1].hi = chunk_requests[n].hi

\* C24: when the provider has answered a request with "too many results" and
\* a suggested range that is the request itself, the outermost call ends
\* with a query error raised to its caller.
C24_NonNarrowingGuard ==
    (ChunkDone /\ \E n \in 1..Len(chunk_requests) : Reissued(n)) =>
       /\ Val(chunk_ret).raised
       /\ Val(chunk_ret).error # "recursion"

\* what the code does when the suggested range is the request: there is no
\* test of the suggested range, the same request is made again one call
\* deeper until the interpreter's recursion limit, and the RecursionError goes
\* to the caller, or is swallowed when it happens below the query of a range
\* before or after a suggested one
NonNarrowingAsCoded ==
    /\ Len(chunk_stack) <= RecursionLimit
    /\ (ChunkDone /\ Val(chunk_ret).raised) =>
          Val(chunk_ret).error \in {"rpc", "recursion"}
    /\ (ChunkDone /\ Val(chunk_ret).error = "recursion") =>
          \A n \in 1..RecursionLimit :
             /\ chunk_requests[n].depth = n
             /\ ~chunk_requests[n].leaf

\* the same request was made at every depth up to the recursion limit and
\* the caller got the RecursionError
SameRequestUntilRecursionLimit ==
    /\ ChunkDone
    /\ Val(chunk_ret).error = "recursion"
    /\ \A n \in 1..(RecursionLimit - 1) : Reissued(n)

\* the provider suggested the request itself below the query of the range
\* after a suggested one, and the caller got a list of logs
NonNarrowingReturnsLogs ==
    /\ ChunkDone
    /\ ~Val(chunk_ret).raised
    /\ \E n \in 1..Len(chunk_requests) : Reissued(n)
    /\ \E n \in 1..Len(chunk_requests) :
         chunk_requests[n].depth = RecursionLimit

(* ------------------------------------------------------------------ *)
(* Provider errors in the chunking (SpecChunkFair)                      *)
(* ------------------------------------------------------------------ *)
\* a request was answered with an error that is no "too many results" with a
\* suggested range, and that error is on its way up
ErrorPending == chunk_ret = Some(Raised_("rpc"))

\* every call on the stack waits for the query of its suggested range
AllInSuggested ==
    \A i \in 1..Len(chunk_stack) : chunk_stack[i].stage = "chunk"

\* the logs of the outermost call's range
LogsOfQuery ==
    MatchingIn([logs_at |-> chunk_world], Int16(chunk_query.from_block),
               BlockOf(chunk_query.to_block))

\* C25: once the provider has answered a request of the recursion, the
\* original one or one for a suggested range or for the range before or after
\* it, with an error that is no "too many results" with a suggested range,
\* the outermost call ends raising that error and returns no list of logs.
C25_ErrorPropagation ==
    [](ErrorPending => [](ChunkDone => chunk_ret = Some(Raised_("rpc"))))

\* what the code does: the error of the original query and of the query of a
\* suggested range propagates; the queries of the ranges before and after a
\* suggested range are in `try: ... except Exception: pass`
ErrorPropagationAsCoded ==
    []((ErrorPending /\ AllInSuggested) =>
          [](ChunkDone => chunk_ret = Some(Raised_("rpc"))))

\* the outermost call returned a list that lacks logs of its range
PartialLogsReturned ==
    /\ ChunkDone
    /\ ~Val(chunk_ret).raised
    /\ Len(Val(Val(chunk_ret).logs)) < Cardinality(LogsOfQuery)

(* ------------------------------------------------------------------ *)
(* scan_all_chains (Spec)                                               *)
(* ------------------------------------------------------------------ *)
\* scan_all_chains has returned
Scanned == pc \notin {"detect", "scan"}

\* one ChainActivity per configured chain, in the order of the configuration;
\* a chain outside the active set has no activity and no protocol
OnePerChainInOrder ==
    Scanned =>
      /\ Len(chain_activities) = num_chains
      /\ \A c \in Chains :
           /\ chain_activities[c].chain = c
           /\ ~InSeq(c, active_chains) =>
                /\ ~chain_activities[c].has_activity
                /\ chain_activities[c].protocols_detected = <<>>

\* C26: scan_all_chains returns one ChainActivity per configured chain in
\* configuration order and probes the activity of a chain at most once: a
\* chain outside the active set gets no activity and no protocol, and a chain
\* inside it is not probed again.
C26_ScanAllChainsOnce ==
    /\ OnePerChainInOrder
    /\ \A c \in Chains : Len(probes[c]) <= 1

\* what the code does: scan_chain probes the activity of a chain of the
\* active set again, so an active chain is probed twice and an inactive one
\* once
ScanAllChainsAsCoded ==
    /\ OnePerChainInOrder
    /\ Scanned =>
         \A c \in Chains :
            Len(probes[c]) = IF InSeq(c, active_chains) THEN 2 ELSE 1

\* a chain of the active set whose second probe failed: it is reported
\* without activity
ActiveChainProbedTwice ==
    /\ Scanned
    /\ \E c \in Chains :
         /\ InSeq(c, active_chains)
         /\ probes[c] = <<"logs", "error">>
         /\ ~chain_activities[c].has_activity

(* ------------------------------------------------------------------ *)
(* SpecDetect: detect_active_chains over NumDetChains chains, with any  *)
(* response to each activity probe                                      *)
(* ------------------------------------------------------------------ *)
\* number of configured chains in the scenarios of SpecDetect
NumDetChains == 3

DetSpecInit ==
    /\ AggIdle
    /\ RetryIdle
    /\ CacheIdle
    /\ BatchIdle
    /\ ScanIdle
    /\ ChunkIdle
    /\ RegIdle
    /\ PadIdle
    /\ FanIdle
    /\ PriceIdle
    /\ DetIdle
    /\ FindIdle
    /\ ProtoIdle

Detect == DetectStep(NumDetChains)

DetNext == Detect

SpecDetect == DetSpecInit /\ [][DetNext]_vars

\* C27: _has_chain_activity never raises; it is false whenever the query
\* failed or the response is something else than a list of logs, and true
\* only if the query returned at least one log.
C27_ProbeNeverRaises ==
    \A i \in 1..Len(det_log) :
       LET response == det_log[i].response
           outcome == det_log[i].outcome
       IN /\ ~outcome.raised
          /\ response.kind \in {"error", "malformed"} => ~outcome.value
          /\ outcome.value => (response.kind = "logs" /\ response.len >= 1)

\* what the code does: never raises, false for an error and for a response
\* without a length, and `len(...) > 0` for every response that has a length,
\* a list of logs or not
ProbeAsCoded ==
    /\ \A i \in 1..Len(det_log) :
         LET response == det_log[i].response
             outcome == det_log[i].outcome
         IN /\ ~outcome.raised
            /\ outcome.value <=>
                 (response.kind # "error" /\ response.sized /\ response.len > 0)
    /\ det_active = SelectSeq([i \in 1..Len(det_log) |-> i],
                              LAMBDA i : det_log[i].outcome.value)

\* a response that is no list of logs and has a length made a chain active
MalformedResponseMeansActive ==
    \E i \in 1..Len(det_log) :
       /\ det_log[i].response.kind = "malformed"
       /\ det_log[i].outcome.value
       /\ InSeq(i, det_active)

(* ------------------------------------------------------------------ *)
(* cleanup_expired against get                                          *)
(* ------------------------------------------------------------------ *)
\* any sequence of set, get, cleanup_expired and clock advances on one
\* RPCCache whose callers store one value
CleanupSet == CacheSetOf({"v1"})

CleanupNext ==
    \/ CleanupSet
    \/ CacheGet
    \/ CleanupExpired
    \/ Tick

SpecCleanup == CacheSpecInit /\ [][CleanupNext]_vars

\* what get(key) returns in this state: the three returns of RPCCache.get
GetReturns(key) ==
    IF key \notin DOMAIN cache THEN None
    ELSE IF IsExpired(cache[key], now) THEN None
    ELSE Some(cache[key].value)

\* what get(key) returns when cleanup_expired is never called: the value of
\* the latest set of the key since the last clear, while its entry has not
\* expired
GetReturnsWithoutCleanup(key) ==
    IF last_set[key] = None THEN None
    ELSE LET st == Val(last_set[key])
             entry == CacheEntry(st.value, ResolveTtl(st.ttl, default_ttl), st.at)
         IN IF IsExpired(entry, now) THEN None ELSE Some(entry.value)

ExpiredKeys == {k \in DOMAIN cache : IsExpired(cache[k], now)}

\* C28: the cleanup_expired calls among the sets, gets and clock advances
\* change what no get returns; each call removes exactly the entries expired
\* at that moment, keeps the others, and returns the number it removed.
C28_CleanupIsOptimization ==
    /\ [](\A k \in CacheKeys : GetReturns(k) = GetReturnsWithoutCleanup(k))
    /\ [][CleanupExpired =>
            /\ DOMAIN cache' = DOMAIN cache \ ExpiredKeys
            /\ \A k \in DOMAIN cache' : cache'[k] = cache[k]
            /\ last_cleanup' =
                 Some(Cardinality(DOMAIN cache) - Cardinality(DOMAIN cache'))]_vars

\* a cleanup has removed at least one expired entry, an entry set since is
\* gone from the cache, and a get at this instant returned the value of an
\* unexpired entry that is still cached
C28_Witness ==
    /\ IsSome(last_cleanup)
    /\ Val(last_cleanup) >= 1
    /\ IsSome(last_get)
    /\ Val(last_get).at = now
    /\ IsSome(Val(last_get).result)
    /\ Val(last_get).key \in DOMAIN cache
    /\ \E k \in CacheKeys \ DOMAIN cache :
          /\ k # Val(last_get).key
          /\ IsSome(last_set[k])

(* ------------------------------------------------------------------ *)
(* SpecFind: any sequence of register, clear and                        *)
(* find_handler_for_contract on the registry                            *)
(* ------------------------------------------------------------------ *)
nonRegFindVars ==
    <<num_chains, aggVars, retryVars, cacheVars, batchVars, scanVars,
      chunkVars, padVars, fanVars, priceVars, detVars, protoVars>>

\* the protocols that have contract addresses in the address data
KnownProtocols == RegNames \ {""}

\* BaseProtocolHandler.matches of an instance of the class; `known`: the
\* protocols whose addresses on the chain hold the contract address
Matches(handler_class, known, chain) ==
    /\ chain \in handler_class.supported_chains
    /\ handler_class.name \in known

\* the loop of find_handler_for_contract over `hs` from the i-th class on;
\* handler_class() raises ValueError for a class with the empty name
RECURSIVE FindFrom(_, _, _, _)
FindFrom(hs, i, known, chain) ==
    IF i > Len(hs) THEN [raised |-> FALSE, value |-> None]
    ELSE IF hs[i].name = "" THEN [raised |-> TRUE, value |-> None]
    ELSE IF Matches(hs[i], known, chain)
    THEN [raised |-> FALSE, value |-> Some(hs[i])]
    ELSE FindFrom(hs, i + 1, known, chain)

\* ProtocolRegistry.find_handler_for_contract
find_handler_for_contract(known, chain) ==
    FindFrom(get_handlers_for_chain(chain), 1, known, chain)

FindSpecInit ==
    /\ RegInit
    /\ num_chains = 2
    /\ pc = "idle"
    /\ idx = 1
    /\ active_chains = <<>>
    /\ chain_activities = <<>>
    /\ probes = [c \in Chains |-> <<>>]
    /\ max_workers = 0
    /\ submitted = <<>>
    /\ future = [c \in Chains |-> "none"]
    /\ future_result = [c \in Chains |-> <<>>]
    /\ collected = {}
    /\ all_positions = <<>>
    /\ prices = <<>>
    /\ summary = None
    /\ nDiscover = 0
    /\ nGetPositions = 0
    /\ nGetPrices = 0
    /\ RetryIdle
    /\ CacheIdle
    /\ BatchIdle
    /\ ScanIdle
    /\ ChunkIdle
    /\ PadIdle
    /\ FanIdle
    /\ PriceIdle
    /\ DetIdle
    /\ reg_order = handlers
    /\ reg_found = None
    /\ ProtoIdle

\* ProtocolRegistry.register(handler_class); reg_order has the class last
FindRegister ==
    /\ \E handler_class \in RegistryClasses :
         LET r == Register(handlers, handler_class) IN
           /\ handlers' = r.handlers
           /\ reg_last' = IF r.raised THEN reg_last
                          ELSE [reg_last EXCEPT
                                  ![handler_class.name] = Some(handler_class)]
           /\ reg_op' = Some([op |-> "register", arg |-> Some(handler_class),
                              raised |-> r.raised, before |-> handlers])
           /\ reg_order' =
                IF r.raised THEN reg_order
                ELSE Append(SelectSeq(reg_order,
                               LAMBDA h : h.name # handler_class.name),
                            handler_class)
    /\ reg_found' = None
    /\ UNCHANGED nonRegFindVars

\* ProtocolRegistry.clear()
FindClear ==
    /\ handlers' = <<>>
    /\ reg_last' = [n \in RegNames |-> None]
    /\ reg_op' = Some([op |-> "clear", arg |-> None, raised |-> FALSE,
                       before |-> handlers])
    /\ reg_order' = <<>>
    /\ reg_found' = None
    /\ UNCHANGED nonRegFindVars

\* ProtocolRegistry.find_handler_for_contract(contract_address, chain)
FindHandler ==
    /\ \E chain \in AskedChains, known \in SUBSET KnownProtocols :
         reg_found' = Some([chain |-> chain, known |-> known,
                            result |-> find_handler_for_contract(known, chain)])
    /\ UNCHANGED <<nonFindVars, reg_order>>

FindNext ==
    \/ FindRegister
    \/ FindClear
    \/ FindHandler

SpecFind == FindSpecInit /\ [][FindNext]_vars

\* the registered classes that support the chain and match, in the order of
\* the latest register of each name
MatchingInOrder(known, chain) ==
    SelectSeq(reg_order, LAMBDA h : Matches(h, known, chain))

\* C29: find_handler_for_contract returns the first class, in registration
\* order with a re-registered name counted at its re-registration, that
\* supports the chain and matches, and None exactly when there is none.
C29_FindHandlerForContract ==
    IsSome(reg_found) =>
      LET f == Val(reg_found)
          cand == MatchingInOrder(f.known, f.chain)
      IN /\ ~f.result.raised
         /\ f.result.value = IF cand = <<>> THEN None ELSE Some(cand[1])

\* what the code does: the order is that of the dict, where a name keeps the
\* place of its first register, and the lookup raises when a class with the
\* empty name supports the chain and stands before every match
FindHandlerAsCoded ==
    IsSome(reg_found) =>
      LET f == Val(reg_found)
          hs == get_handlers_for_chain(f.chain)
          hit == {i \in 1..Len(hs) : Matches(hs[i], f.known, f.chain)}
          bad == {i \in 1..Len(hs) : hs[i].name = ""}
          First(S) == CHOOSE i \in S : \A j \in S : i <= j
      IN /\ f.result.raised <=>
              (bad # {} /\ (hit = {} \/ First(bad) < First(hit)))
         /\ ~f.result.raised =>
              f.result.value = IF hit = {} THEN None ELSE Some(hs[First(hit)])

\* a lookup returned a matching class registered again under its name although
\* another matching class was registered between its two registrations
ReRegisteredFoundFirst ==
    /\ IsSome(reg_found)
    /\ ~Val(reg_found).result.raised
    /\ IsSome(Val(reg_found).result.value)
    /\ LET f == Val(reg_found)
           cand == MatchingInOrder(f.known, f.chain)
       IN /\ Len(cand) >= 2
          /\ Val(f.result.value) = cand[Len(cand)]

\* a lookup raised although a registered class supports the chain and matches
FindRaisedBeforeMatch ==
    /\ IsSome(reg_found)
    /\ Val(reg_found).result.raised
    /\ MatchingInOrder(Val(reg_found).known, Val(reg_found).chain) # <<>>

(* ------------------------------------------------------------------ *)
(* SpecProto: get_positions_for_protocol on a registry                  *)
(* ------------------------------------------------------------------ *)
\* the chain name '' (a str that is false)
EmptyChain == 0

\* the `chain` argument: None, '' or a chain name, one of them unsupported
ChainArgs == {None} \cup {Some(c) : c \in {EmptyChain} \cup AskedChains}

\* the `protocol_name` argument: the names of the registry and another
ProtocolArgs == (RegNames \ {""}) \cup {"compound"}

\* registries: the shipped one, the empty one, and one registered class
ProtoRegistries ==
    {DefaultHandlers, <<>>} \cup
    {<<h>> : h \in {c \in RegistryClasses : c.name \in RegNames \ {""}}}

\* `chains` of get_positions_for_protocol
ChainsToQuery(handler_class, chain) ==
    IF Truthy(chain)
    THEN IF Val(chain) \in handler_class.supported_chains
         THEN <<Val(chain)>> ELSE <<>>
    ELSE SortedSeq(handler_class.supported_chains)

\* the loop `for chain_name in chains` from the i-th chain on; the
\* constructor or get_positions of the `at`-th round raises (none when at = 0)
RECURSIVE FetchFrom(_, _, _, _, _, _)
FetchFrom(name, chains, i, at, kind, acc) ==
    IF i > Len(chains) THEN acc
    ELSE IF i = at
    THEN [acc EXCEPT !.raised = TRUE,
                     !.get_positions = IF kind = "get_raises" THEN @ + 1 ELSE @]
    ELSE FetchFrom(name, chains, i + 1, at, kind,
                   [acc EXCEPT !.positions = @ \o HandlerPositions(name, chains[i]),
                               !.get_positions = @ + 1])

\* PositionAggregator.get_positions_for_protocol: what it returns or that it
\* raised, and the numbers of calls of get_positions and of get_prices
GetPositionsForProtocol(protocol_name, chain, at, kind, feed) ==
    LET handler_class == get_handler(protocol_name)
        empty == [raised |-> FALSE, positions |-> <<>>, get_positions |-> 0,
                  get_prices |-> 0]
    IN IF handler_class = None THEN empty
       ELSE LET chains == ChainsToQuery(Val(handler_class), chain)
                got == FetchFrom(protocol_name, chains, 1, at, kind, empty)
                e == EnrichPositions(got.positions, feed)
            IN IF got.raised THEN [got EXCEPT !.positions = <<>>]
               ELSE [got EXCEPT !.positions = e.positions,
                                !.get_prices = e.calls]

ProtoSpecInit ==
    /\ handlers \in ProtoRegistries
    /\ reg_last = [n \in RegNames |-> get_handler(n)]
    /\ reg_op = None
    /\ num_chains = 2
    /\ pc = "idle"
    /\ idx = 1
    /\ active_chains = <<>>
    /\ chain_activities = <<>>
    /\ probes = [c \in Chains |-> <<>>]
    /\ max_workers = 0
    /\ submitted = <<>>
    /\ future = [c \in Chains |-> "none"]
    /\ future_result = [c \in Chains |-> <<>>]
    /\ collected = {}
    /\ all_positions = <<>>
    /\ prices = <<>>
    /\ summary = None
    /\ nDiscover = 0
    /\ nGetPositions = 0
    /\ nGetPrices = 0
    /\ RetryIdle
    /\ CacheIdle
    /\ BatchIdle
    /\ ScanIdle
    /\ ChunkIdle
    /\ PadIdle
    /\ FanIdle
    /\ PriceIdle
    /\ DetIdle
    /\ FindIdle
    /\ proto_call = None

\* get_positions_for_protocol(user_address, protocol_name, chain)
ProtoCall ==
    /\ \E protocol_name \in ProtocolArgs, chain \in ChainArgs,
          at \in 0..Cardinality(AllChains),
          kind \in {"get_raises", "ctor_raises"}, feed \in PipelineFeeds :
         LET r == GetPositionsForProtocol(protocol_name, chain, at, kind, feed)
         IN proto_call' = Some([protocol |-> protocol_name, chain |-> chain,
                                raised |-> r.raised, positions |-> r.positions,
                                get_positions |-> r.get_positions,
                                get_prices |-> r.get_prices])
    /\ UNCHANGED nonProtoVars

ProtoNext == ProtoCall

SpecProto == ProtoSpecInit /\ [][ProtoNext]_vars

\* the call returned the empty list and called neither a handler nor the
\* pricing service
EmptyWithoutCalls(p) ==
    /\ ~p.raised
    /\ p.positions = <<>>
    /\ p.get_positions = 0
    /\ p.get_prices = 0

\* C30: get_positions_for_protocol returns an empty list, without raising
\* and without a get_positions or pricing call, when the protocol is not
\* registered or the given chain is not among the handler's supported_chains.
C30_UnconfiguredYieldsEmpty ==
    IsSome(proto_call) =>
      LET p == Val(proto_call) IN
        (\/ get_handler(p.protocol) = None
         \/ /\ IsSome(p.chain)
            /\ Val(p.chain) \notin Val(get_handler(p.protocol)).supported_chains)
        => EmptyWithoutCalls(p)

\* the same for a given chain whose name is not empty: this is what the code
\* does
UnconfiguredYieldsEmptyAsCoded ==
    IsSome(proto_call) =>
      LET p == Val(proto_call) IN
        (\/ get_handler(p.protocol) = None
         \/ /\ Truthy(p.chain)
            /\ Val(p.chain) \notin Val(get_handler(p.protocol)).supported_chains)
        => EmptyWithoutCalls(p)

\* a call with the chain '' ran get_positions on a supported chain
EmptyChainQueriesAllChains ==
    /\ IsSome(proto_call)
    /\ Val(proto_call).chain = Some(EmptyChain)
    /\ Val(proto_call).get_positions >= 1

\* a call for a registered protocol on a chain it does not support
UnsupportedChainAsked ==
    /\ IsSome(proto_call)
    /\ get_handler(Val(proto_call).protocol) # None
    /\ Truthy(Val(proto_call).chain)
    /\ Val(Val(proto_call).chain)
         \notin Val(get_handler(Val(proto_call).protocol)).supported_chains

====
